---- MODULE Spec2Model ----
(***************************************************************************)
(* Webflow -> Payload CMS migration toolkit (litecoin-fund-cms).           *)
(*                                                                         *)
(* Three scripts share the same routines:                                  *)
(*   "api"     refresh-from-webflow-api.ts (REST; lookup maps built once)  *)
(*   "local"   refresh-from-webflow.ts     (local API; find per record)    *)
(*   "migrate" migrate-from-webflow.ts     (local API; skips existing)     *)
(*                                                                         *)
(* Strings are sequences of one-character strings, so that toLowerCase,    *)
(* trim and the regular-expression replaces are computed, not assumed.     *)
(***************************************************************************)
EXTENDS Integers, Sequences, FiniteSets, TLC

VARIABLES
    \* ---- listCollectionItems (one call) ----
    fSource,        \* the remote collection: the items in source order
    fOffset,        \* let offset
    fAllItems,      \* const allItems
    fPc,            \* "idle" | "request" | "returned" | "thrown"
    fRequests,      \* history: the offsets requested, in order
    fRateLimited,   \* history: number of HTTP 429 responses so far
    \* ---- one run of a script (main) ----
    variant,        \* "api" | "local" | "migrate" | "donors" | "none"
    phase,          \* the entity-type step main is in
    pc,             \* "fetch" | "loop" inside the step
    srcContributors,\* the Webflow contributors collection
    srcProjects,    \* the Webflow projects collection
    toProcess,      \* the filtered list the current step loops over
    idx,            \* number of records of toProcess already handled
    contributors,   \* target store: id -> contributor document
    projects,       \* target store: id -> project document
    dependents,     \* target store: [faqs, posts, updates], each id -> document
    lookup,         \* api variant: the documents listed before the loop
    contributorIdMap,
    projectIdMap,
    log,            \* history: one entry per handled record
    failures,       \* history: number of injected request failures
    configured,     \* process.env: the entity types with token and collection id
    \* ---- one of the pure mapping functions, applied to an argument ----
    fn,             \* "sanitize" | "status" | "lexical" | "none"
    arg,            \* [text |-> string], or the empty record for undefined
    out,            \* history: the values returned so far, in order
    \* ---- normalize-media-filenames.ts ----
    mediaDir,       \* the media directory: name -> "file" | "dir" | "link"
    dryRun,         \* --dry-run was given
    entries,        \* const entries: what fs.readdir returned
    entryIdx,       \* number of entries the for loop has handled
    renamed,        \* let renamed
    skipped,        \* let skipped
    mediaPc         \* "idle" | "readdir" | "loop" | "done" | "failed"

fetchVars == <<fSource, fOffset, fAllItems, fPc, fRequests, fRateLimited>>
runVars == <<configured, variant, phase, pc, srcContributors, srcProjects, toProcess, idx,
             contributors, projects, dependents, lookup,
             contributorIdMap, projectIdMap, log, failures>>
vars == <<fSource, fOffset, fAllItems, fPc, fRequests, fRateLimited,
          configured, variant, phase, pc, srcContributors, srcProjects,
          toProcess, idx, contributors, projects, dependents, lookup,
          contributorIdMap, projectIdMap, log, failures, fn, arg, out,
          mediaDir, dryRun, entries, entryIdx, renamed, skipped, mediaPc>>
pureVars == <<fn, arg, out>>
mediaVars == <<mediaDir, dryRun, entries, entryIdx, renamed, skipped, mediaPc>>

(***************************************************************************)
(* Bounds of the model.                                                    *)
(*   MaxItems        size of the collection one listCollectionItems reads  *)
(*   MaxRateLimited  429 responses during one listCollectionItems          *)
(*   MaxRecords      source records plus stored documents a run starts on  *)
(*   MaxFailures     requests of a run that throw                          *)
(*   MaxSlug         length of a raw slug given to the sanitizer           *)
(*   MaxText         length of a text given to textToLexical               *)
(*   MaxRuns         runs in a sequence                                    *)
(*   MaxRunRecords   MaxRecords of the first run of a sequence             *)
(*   MaxMissing      collection ids missing from the environment           *)
(*   MaxFiles        entries of the media directory                        *)
(***************************************************************************)
MaxItems == 205
MaxRateLimited == 2
MaxRecords == 3
MaxFailures == 1
MaxRuns == 2
MaxRunRecords == 2
MaxMissing == 1
MaxFiles == 3
MaxSlug == 4
MaxText == 5

(***************************************************************************)
(* Strings.                                                                *)
(***************************************************************************)
Upper == <<"A","B","C","D","E","F","G","H","I","J","K","L","M",
           "N","O","P","Q","R","S","T","U","V","W","X","Y","Z">>
Lower == <<"a","b","c","d","e","f","g","h","i","j","k","l","m",
           "n","o","p","q","r","s","t","u","v","w","x","y","z">>
Digits == {"0","1","2","3","4","5","6","7","8","9"}
Whitespace == {" ", "\t", "\n", "\r"}

Range(s) == {s[i] : i \in DOMAIN s}

ToLowerChar(c) ==
    IF \E i \in DOMAIN Upper : Upper[i] = c
    THEN Lower[CHOOSE i \in DOMAIN Upper : Upper[i] = c]
    ELSE c

ToLowerCase(s) == [i \in DOMAIN s |-> ToLowerChar(s[i])]

RECURSIVE TrimStart(_)
TrimStart(s) ==
    IF s # <<>> /\ Head(s) \in Whitespace THEN TrimStart(Tail(s)) ELSE s

RECURSIVE TrimEnd(_)
TrimEnd(s) ==
    IF s # <<>> /\ s[Len(s)] \in Whitespace
    THEN TrimEnd(SubSeq(s, 1, Len(s) - 1))
    ELSE s

Trim(s) == TrimEnd(TrimStart(s))

\* .replace(/[^a-z0-9-]/g, '-')
SlugChar(c) == c \in Range(Lower) \cup Digits \cup {"-"}
ReplaceInvalid(s) == [i \in DOMAIN s |-> IF SlugChar(s[i]) THEN s[i] ELSE "-"]

\* faulty variant: runs of hyphens are kept
CollapseHyphensKeepsRuns(s) == s

\* .replace(/-+/g, '-')
RECURSIVE CollapseHyphens(_)
CollapseHyphens(s) ==
    IF Len(s) < 2 THEN s
    ELSE IF s[1] = "-" /\ s[2] = "-" THEN CollapseHyphens(Tail(s))
    ELSE <<s[1]>> \o CollapseHyphens(Tail(s))

\* .replace(/^-|-$/g, ''): one hyphen at the start, one at the end
StripEdgeHyphens(s) ==
    LET a == IF s # <<>> /\ Head(s) = "-" THEN Tail(s) ELSE s
    IN  IF a # <<>> /\ a[Len(a)] = "-" THEN SubSeq(a, 1, Len(a) - 1) ELSE a

\* faulty variant: the edge hyphens are stripped before the runs collapse
SanitizeStripFirst(s) ==
    CollapseHyphens(StripEdgeHyphens(ReplaceInvalid(Trim(ToLowerCase(s)))))

Sanitize(s) ==
    StripEdgeHyphens(CollapseHyphens(ReplaceInvalid(Trim(ToLowerCase(s)))))

\* a || b on strings: the empty string and undefined are both falsy
OrElse(a, b) == IF a # <<>> THEN a ELSE b

(***************************************************************************)
(* listCollectionItems: offset pagination with retry on HTTP 429.          *)
(***************************************************************************)
limit == 100

Min(a, b) == IF a < b THEN a ELSE b

\* The remote API's answer to GET items?limit=&offset= on a stable collection.
Page(source, offset, lim) ==
    IF offset >= Len(source) THEN <<>>
    ELSE SubSeq(source, offset + 1, Min(offset + lim, Len(source)))

\* faulty variant: the offset counts pages instead of items
NextOffsetPageIndex(offset) == offset + 1

NextOffset(offset) == offset + limit

\* faulty variant: a full page ends the loop as well
LastPageOrFull(items) == Len(items) <= limit

LastPage(items) == Len(items) < limit

\* faulty variant: the retry moves on to the next page
RateLimitedOffsetSkips(offset) == offset + limit

\* What the catch branch for status 429 does to (offset, allItems): nothing.
RateLimitedOffset(offset) == offset

FetchInit ==
    /\ \E n \in 0..MaxItems : fSource = [i \in 1..n |-> i]
    /\ fOffset = 0
    /\ fAllItems = <<>>
    /\ fPc = "request"
    /\ fRequests = <<>>
    /\ fRateLimited = 0

\* client.get succeeds: push the page, stop on a short page, else advance.
FetchPageOk ==
    /\ fPc = "request"
    /\ LET items == Page(fSource, fOffset, limit)
       IN  /\ fAllItems' = fAllItems \o items
           /\ IF LastPage(items)
              THEN fPc' = "returned" /\ fOffset' = fOffset
              ELSE fPc' = "request" /\ fOffset' = NextOffset(fOffset)
    /\ fRequests' = Append(fRequests, fOffset)
    /\ UNCHANGED <<fSource, fRateLimited>>

\* client.get throws with response.status 429: wait 5 s, continue.
FetchPage429 ==
    /\ fPc = "request"
    /\ fRateLimited < MaxRateLimited
    /\ fRequests' = Append(fRequests, fOffset)
    /\ fRateLimited' = fRateLimited + 1
    /\ fOffset' = RateLimitedOffset(fOffset)
    /\ UNCHANGED <<fSource, fAllItems, fPc>>

\* client.get throws anything else: rethrown, allItems is lost with the frame.
FetchPageError ==
    /\ fPc = "request"
    /\ fPc' = "thrown"
    /\ fRequests' = Append(fRequests, fOffset)
    /\ UNCHANGED <<fSource, fOffset, fAllItems, fRateLimited>>

(***************************************************************************)
(* The two collaborators of a run.                                         *)
(*   Webflow items : [id, slug, isDraft, isArchived, fieldData]; an        *)
(*     optional fieldData key that is undefined is absent from the record; *)
(*     'twitter-link' is written twitter_link, and so on.                  *)
(*   Payload docs  : id -> record of the fields that are set.              *)
(***************************************************************************)
Field(fd, k) == IF k \in DOMAIN fd THEN fd[k] ELSE <<>>

Has(fd, k) == k \in DOMAIN fd

NoDoc == 0

UnknownContributor ==
    <<"U","n","k","n","o","w","n"," ","C","o","n","t","r","i","b","u","t","o","r">>

UnknownProject ==
    <<"U","n","k","n","o","w","n"," ","P","r","o","j","e","c","t">>

\* The id a create is given: serial ids, and nothing is ever deleted.
NewId(store) ==
    IF DOMAIN store = {} THEN 1
    ELSE 1 + CHOOSE m \in DOMAIN store : \A k \in DOMAIN store : k <= m

\* faulty variant: the slug column has no unique index
SlugFreeNoIndex(store, id, data) == TRUE

\* fields.slug `unique: true`: a write is rejected (ValidationError) when
\* another document of the collection already has the slug.
SlugFree(store, id, data) ==
    \A k \in DOMAIN store : k # id => store[k].slug # data.slug

\* PATCH / payload.update: the fields present in the data are written, the
\* others keep their value (JSON.stringify drops undefined properties).
PatchDoc(old, data) ==
    [k \in DOMAIN old \cup DOMAIN data |->
        IF k \in DOMAIN data THEN data[k] ELSE old[k]]

\* new Map(pairs).get(k) for pairs [key, id]: the last pair wins.
MapGet(pairs, k) ==
    LET hits == {i \in DOMAIN pairs : pairs[i].key = k}
    IN  IF hits = {} THEN NoDoc
        ELSE pairs[CHOOSE i \in hits : \A j \in hits : j <= i].id

\* All orders in which a collection may be listed.
Orders(store) ==
    {o \in [1..Cardinality(DOMAIN store) -> DOMAIN store] :
        \A i, j \in DOMAIN o : i # j => o[i] # o[j]}

Listing(store, o) == [i \in DOMAIN o |-> [id |-> o[i]] @@ store[o[i]]]

\* const rawSlug = fieldData.slug || item.slug || item.id
RawSlug(item) == OrElse(OrElse(Field(item.fieldData, "slug"), item.slug), item.id)

ContributorName(item) == OrElse(Field(item.fieldData, "name"), UnknownContributor)

ProjectName(item) == OrElse(Field(item.fieldData, "name"), UnknownProject)

\* The two `continue`s before any request: blank slug, blank after sanitizing.
\* faulty variant: only the raw slug is looked at
SkippedOnlyBlank(item) == Trim(RawSlug(item)) = <<>>

Skipped(item) == Trim(RawSlug(item)) = <<>> \/ Sanitize(RawSlug(item)) = <<>>

OptionalKey(fd, from, to) == IF Has(fd, from) THEN to :> fd[from] ELSE <<>>

\* const contributorData = { name, slug, twitterLink, ... }
ContributorData(item) ==
    [name |-> ContributorName(item), slug |-> Sanitize(RawSlug(item))]
        @@ OptionalKey(item.fieldData, "twitter_link", "twitterLink")

(***************************************************************************)
(* The pure mapping functions: slug sanitizer, status normalization and    *)
(* textToLexical, each applied to an argument of a bounded set.            *)
(***************************************************************************)
\* All strings over an alphabet, up to a length.
Strings(alphabet, n) == UNION {[1..k -> alphabet] : k \in 0..n}

Includes(s, sub) ==
    \E i \in 0..(Len(s) - Len(sub)) : SubSeq(s, i + 1, i + Len(sub)) = sub

WActive == <<"a","c","t","i","v","e">>
WCompleted == <<"c","o","m","p","l","e","t","e","d">>
WPaused == <<"p","a","u","s","e","d">>
WArchived == <<"a","r","c","h","i","v","e","d">>
WLive == <<"l","i","v","e">>
WComplete == <<"c","o","m","p","l","e","t","e">>
WDone == <<"d","o","n","e">>
WPause == <<"p","a","u","s","e">>
WHold == <<"h","o","l","d">>
WArchive == <<"a","r","c","h","i","v","e">>

\* let status = (fieldData.status || '').toLowerCase(), then the rules
\* faulty variant: the completed rule is tried before the active rule
NormalizeStatusCompletedFirst(a) ==
    LET status == ToLowerCase(Field(a, "text"))
    IN  IF status \in {WActive, WCompleted, WPaused, WArchived} THEN status
        ELSE IF Includes(status, WComplete) \/ Includes(status, WDone)
             THEN WCompleted
        ELSE IF Includes(status, WActive) \/ Includes(status, WLive) THEN WActive
        ELSE IF Includes(status, WPause) \/ Includes(status, WHold) THEN WPaused
        ELSE IF Includes(status, WArchive) THEN WArchived
        ELSE WActive

NormalizeStatus(a) ==
    LET status == ToLowerCase(Field(a, "text"))
    IN  IF status \in {WActive, WCompleted, WPaused, WArchived} THEN status
        ELSE IF Includes(status, WActive) \/ Includes(status, WLive) THEN WActive
        ELSE IF Includes(status, WComplete) \/ Includes(status, WDone)
             THEN WCompleted
        ELSE IF Includes(status, WPause) \/ Includes(status, WHold) THEN WPaused
        ELSE IF Includes(status, WArchive) THEN WArchived
        ELSE WActive

\* text.split('\n')
RECURSIVE Split(_)
Split(s) ==
    IF \A i \in DOMAIN s : s[i] # "\n" THEN <<s>>
    ELSE LET i == CHOOSE k \in DOMAIN s :
                     s[k] = "\n" /\ \A j \in 1..(k - 1) : s[j] # "\n"
         IN  <<SubSeq(s, 1, i - 1)>> \o Split(SubSeq(s, i + 1, Len(s)))

TextNode(t) ==
    [type |-> "text", text |-> t, detail |-> 0, format |-> 0, mode |-> "normal",
     style |-> "", version |-> 1]

Paragraph(children) ==
    [type |-> "paragraph", children |-> children, direction |-> "ltr",
     format |-> "", indent |-> 0, version |-> 1]

Root(children) ==
    [root |-> [type |-> "root", children |-> children, direction |-> "ltr",
               format |-> "", indent |-> 0, version |-> 1]]

EmptyDocument == Root(<<Paragraph(<<>>)>>)

\* faulty variant: blank lines become paragraphs too
NonBlankLinesAll(text) == Split(text)

\* text.split('\n').filter((line) => line.trim().length > 0)
NonBlankLines(text) == SelectSeq(Split(text), LAMBDA line : Trim(line) # <<>>)

\* faulty variant: no text gives a root without children
TextToLexicalNoParagraph(a) ==
    LET lines == NonBlankLines(Field(a, "text"))
    IN  Root([i \in DOMAIN lines |-> Paragraph(<<TextNode(Trim(lines[i]))>>)])

TextToLexical(a) ==
    IF Field(a, "text") = <<>> THEN EmptyDocument
    ELSE LET lines == NonBlankLines(a.text)
         IN  IF lines = <<>> THEN EmptyDocument
             ELSE Root([i \in DOMAIN lines |->
                          Paragraph(<<TextNode(Trim(lines[i]))>>)])

(***************************************************************************)
(* Inputs of a run: the Webflow collections and the Payload collections    *)
(* the run starts from.                                                    *)
(***************************************************************************)
W(n) == <<"w", n>>
X(n) == <<"x", n>>

ContributorPool == {
    [id |-> W("1"), slug |-> <<>>, isDraft |-> FALSE, isArchived |-> FALSE,
     fieldData |-> [name |-> <<"A","l">>, slug |-> <<"a">>,
                    twitter_link |-> <<"t">>]],
    \* sanitizes to the slug of w1
    [id |-> W("2"), slug |-> <<>>, isDraft |-> FALSE, isArchived |-> FALSE,
     fieldData |-> [name |-> <<"B","o">>, slug |-> <<"A"," ">>]],
    \* another slug, the name of w1 in another case; a draft
    [id |-> W("3"), slug |-> <<>>, isDraft |-> TRUE, isArchived |-> FALSE,
     fieldData |-> [name |-> <<"a","l">>, slug |-> <<"b">>]],
    \* no name; the slug changes under sanitizing
    [id |-> W("4"), slug |-> <<>>, isDraft |-> FALSE, isArchived |-> FALSE,
     fieldData |-> [slug |-> <<"A","_","b">>]],
    \* the slug sanitizes to the empty string
    [id |-> W("5"), slug |-> <<"_">>, isDraft |-> FALSE, isArchived |-> FALSE,
     fieldData |-> [name |-> <<"A","l">>]],
    \* archived, no slug at all: the id is the raw slug
    [id |-> W("6"), slug |-> <<>>, isDraft |-> FALSE, isArchived |-> TRUE,
     fieldData |-> [name |-> <<"C","y">>]],
    \* the slug is whitespace
    [id |-> W("7"), slug |-> <<>>, isDraft |-> FALSE, isArchived |-> FALSE,
     fieldData |-> [name |-> <<"D","i">>, slug |-> <<" ">>]] }

ProjectPool == {
    [id |-> X("1"), slug |-> <<>>, isDraft |-> FALSE, isArchived |-> FALSE,
     fieldData |-> [name |-> <<"P","r">>, slug |-> <<"p">>, hidden |-> FALSE,
                    bitcoin_contributors |-> <<W("1")>>,
                    litecoin_contributors |-> <<W("2"), W("9")>>]],
    \* sanitizes to the slug of x1; w1 is in both bitcoin fields
    [id |-> X("2"), slug |-> <<>>, isDraft |-> FALSE, isArchived |-> FALSE,
     fieldData |-> [name |-> <<"P","r">>, slug |-> <<"P">>, hidden |-> FALSE,
                    bitcoin_contributors_2 |-> <<W("1")>>,
                    bitcoin_contributors |-> <<W("1"), W("3")>>,
                    advocates |-> <<W("6")>>]],
    \* hidden
    [id |-> X("3"), slug |-> <<>>, isDraft |-> FALSE, isArchived |-> FALSE,
     fieldData |-> [name |-> <<"H","i">>, slug |-> <<"q">>, hidden |-> TRUE,
                    bitcoin_contributors |-> <<W("1")>>]],
    \* no reference field at all, no slug: the id is the raw slug
    [id |-> X("4"), slug |-> <<>>, isDraft |-> FALSE, isArchived |-> FALSE,
     fieldData |-> [name |-> <<"N","o">>, hidden |-> FALSE]],
    \* the slug sanitizes to the empty string
    [id |-> X("5"), slug |-> <<>>, isDraft |-> FALSE, isArchived |-> FALSE,
     fieldData |-> [name |-> <<"E","m">>, slug |-> <<"-">>, hidden |-> FALSE,
                    advocates |-> <<W("1")>>]] }

\* Documents the contributors collection may hold when the run starts.
StoredContributorPool ==
    (1 :> [slug |-> <<"a">>, name |-> <<"Z","e","d">>, twitterLink |-> <<"s">>])
 @@ (2 :> [slug |-> <<"z">>, name |-> <<" ","A","L">>])
    \* entered by hand, never sanitized
 @@ (3 :> [slug |-> <<"A">>, name |-> <<"B","o">>])
 @@ (4 :> [slug |-> <<"a","_","b">>, name |-> <<"O","l","d">>])
    \* an older migration stored the Webflow id as the slug
 @@ (5 :> [slug |-> W("1"), name |-> <<"A","l">>])

\* Documents the projects collection may hold when the run starts.
StoredProjectPool ==
    (1 :> [slug |-> <<"p">>, name |-> <<"O","l","d">>,
           bitcoinContributors |-> <<1>>, advocates |-> <<1>>])
 @@ (2 :> [slug |-> X("4"), name |-> <<"N","o">>])

\* The Webflow FAQ, post and update collections of every run.
SourceFaqs == <<
    [id |-> <<"f","1">>, isDraft |-> FALSE, isArchived |-> FALSE,
     fieldData |-> [question |-> <<"Q">>, project |-> X("1")]] >>

Url(host, n) == host \o <<"/", n>>
XCom == <<"x",".","c","o","m">>
TwitterCom == <<"t","w","i","t","t","e","r",".","c","o","m">>
YoutubeCom == <<"y","o","u","t","u","b","e",".","c","o","m">>
YoutuBe == <<"y","o","u","t","u",".","b","e">>
RedditCom == <<"r","e","d","d","i","t",".","c","o","m">>
\* the short links of Reddit: none of the hosts refreshPosts looks for
ReddIt == <<"r","e","d","d",".","i","t">>

SourcePosts == <<
    [id |-> <<"s","1">>, isDraft |-> FALSE, isArchived |-> FALSE,
     fieldData |-> [link |-> Url(XCom, "1"), x_post_link |-> Url(XCom, "1"),
                    projects |-> <<X("1"), X("4")>>]],
    [id |-> <<"s","2">>, isDraft |-> TRUE, isArchived |-> FALSE,
     fieldData |-> [link |-> Url(RedditCom, "2"), projects |-> <<X("1")>>]],
    \* the link of s1 again
    [id |-> <<"s","3">>, isDraft |-> FALSE, isArchived |-> FALSE,
     fieldData |-> [link |-> Url(XCom, "1"), projects |-> <<X("2")>>]],
    \* a link of no known host
    [id |-> <<"s","4">>, isDraft |-> FALSE, isArchived |-> FALSE,
     fieldData |-> [link |-> Url(ReddIt, "4"), projects |-> <<X("1")>>]],
    \* the link of s4, delivered in the field of the Reddit links
    [id |-> <<"s","5">>, isDraft |-> FALSE, isArchived |-> FALSE,
     fieldData |-> [reddit_link |-> Url(ReddIt, "4"),
                    projects |-> <<X("1")>>]] >>

SourceUpdates == <<
    [id |-> <<"u","1">>, isDraft |-> FALSE, isArchived |-> FALSE,
     fieldData |-> [title |-> <<"T">>, project |-> X("4")]] >>

D(n) == <<"d", n>>

\* Items the Webflow matching-donors collection may deliver.
DonorPool == {
    [id |-> D("1"), isDraft |-> FALSE, isArchived |-> FALSE,
     fieldData |-> [name |-> <<"N">>, supported_projects |-> <<X("1"), X("9")>>]],
    \* the name of d1
    [id |-> D("2"), isDraft |-> FALSE, isArchived |-> FALSE,
     fieldData |-> [name |-> <<"N">>]],
    [id |-> D("3"), isDraft |-> TRUE, isArchived |-> FALSE,
     fieldData |-> [name |-> <<"M">>]] }

\* Documents the matching-donors collection may hold when a run starts.
StoredDonorPool ==
    (1 :> [webflowId |-> D("1"), name |-> <<"O","l","d">>,
           supportedProjects |-> <<1>>])
    \* entered by hand: no webflowId
 @@ (2 :> [name |-> <<"N">>])

NoDependents ==
    [faqs |-> <<>>, posts |-> <<>>, updates |-> <<>>, donors |-> <<>>]

Restrict(f, S) == [k \in S |-> f[k]]

DistinctSlugs(store) ==
    \A j, k \in DOMAIN store : j # k => store[j].slug # store[k].slug

Stores(pool, n) ==
    {Restrict(pool, S) : S \in {T \in SUBSET DOMAIN pool :
        Cardinality(T) <= n /\ DistinctSlugs(Restrict(pool, T))}}

Lists(pool, n) ==
    {l \in UNION {[1..k -> pool] : k \in 0..n} :
        \A i, j \in DOMAIN l : i # j => l[i] # l[j]}

RelationFields == {"bitcoinContributors", "litecoinContributors", "advocates"}

RelatedIds(doc) ==
    UNION {Range(doc[f]) : f \in RelationFields \cap DOMAIN doc}

(***************************************************************************)
(* Reconciliation: which document, if any, a source record is matched to.  *)
(* A plan is what the loop body decides before it writes:                  *)
(*   [op |-> "skip"]                  continue before any request          *)
(*   [op |-> "exists", id]            map the id, write nothing            *)
(*   [op |-> "update", id, data]      PATCH / payload.update               *)
(*   [op |-> "create", data]          POST / payload.create                *)
(***************************************************************************)
SlugKey(d) == Trim(ToLowerCase(d.slug))

NameKey(d) == Trim(ToLowerCase(d.name))

\* payloadContributorsBySlug
ContributorsBySlug(list) ==
    [i \in DOMAIN list |-> [key |-> SlugKey(list[i]), id |-> list[i].id]]

\* payloadContributorsByName
ContributorsByName(list) ==
    LET named == SelectSeq(list, LAMBDA d : d.name # <<>>)
    IN  [i \in DOMAIN named |-> [key |-> NameKey(named[i]), id |-> named[i].id]]

\* payloadProjectsBySlug
ProjectsBySlug(list) ==
    [i \in DOMAIN list |-> [key |-> list[i].slug, id |-> list[i].id]]

\* faulty variant: the original slug is looked up as the source delivers it
OriginalSlugAsDelivered(item) ==
    OrElse(Field(item.fieldData, "slug"), item.slug)

\* const originalSlug = (fieldData.slug || slug || '').toLowerCase().trim()
OriginalSlug(item) ==
    Trim(ToLowerCase(OrElse(Field(item.fieldData, "slug"), item.slug)))

\* faulty variant: the name is tried before the slug
MatchContributorApiNameFirst(item, list) ==
    LET name == ContributorName(item)
        byName == IF name # <<>> /\ name # UnknownContributor
                  THEN MapGet(ContributorsByName(list), Trim(ToLowerCase(name)))
                  ELSE NoDoc
    IN  IF byName # NoDoc THEN byName
        ELSE MapGet(ContributorsBySlug(list), Sanitize(RawSlug(item)))

\* refresh-from-webflow-api.ts: sanitized slug, then name, then original slug,
\* each looked up in the maps built from the listing made before the loop.
MatchContributorApi(item, list) ==
    LET name == ContributorName(item)
        bySlug == MapGet(ContributorsBySlug(list), Sanitize(RawSlug(item)))
        byName == IF bySlug = NoDoc /\ name # <<>> /\ name # UnknownContributor
                  THEN MapGet(ContributorsByName(list), Trim(ToLowerCase(name)))
                  ELSE bySlug
        originalSlug == OriginalSlug(item)
    IN  IF byName = NoDoc /\ originalSlug # <<>>
        THEN MapGet(ContributorsBySlug(list), originalSlug)
        ELSE byName

\* payload.find({ where: { slug: { equals } }, limit: 1 }) -> docs[0]
FindBySlug(store, slug) ==
    LET hits == {k \in DOMAIN store : store[k].slug = slug}
    IN  IF hits = {} THEN NoDoc ELSE CHOOSE k \in hits : \A j \in hits : k <= j

\* faulty variant: the match is ignored, every record is created
UpdateOrCreateAlwaysCreate(existing, data) ==
    [op |-> "create", id |-> NoDoc, data |-> data]

UpdateOrCreate(existing, data) ==
    IF existing # NoDoc
    THEN [op |-> "update", id |-> existing, data |-> data]
    ELSE [op |-> "create", id |-> NoDoc, data |-> data]

SkipPlan == [op |-> "skip", id |-> NoDoc, data |-> <<>>]

PlanContributorApi(item, list) ==
    IF Skipped(item) THEN SkipPlan
    ELSE UpdateOrCreate(MatchContributorApi(item, list), ContributorData(item))

\* refresh-from-webflow.ts: find by sanitized slug, else by the Webflow id.
PlanContributorLocal(item, store) ==
    IF Skipped(item) THEN SkipPlan
    ELSE LET existing == FindBySlug(store, Sanitize(RawSlug(item)))
             legacy == FindBySlug(store, item.id)
         IN  UpdateOrCreate(IF existing # NoDoc THEN existing ELSE legacy,
                            ContributorData(item))

\* faulty variant: an existing contributor is refreshed
PlanContributorMigrateRefreshes(item, store) == PlanContributorLocal(item, store)

\* migrate-from-webflow.ts: an existing slug is skipped, a legacy document
\* only gets its slug rewritten.
PlanContributorMigrate(item, store) ==
    IF Skipped(item) THEN SkipPlan
    ELSE LET existing == FindBySlug(store, Sanitize(RawSlug(item)))
             legacy == FindBySlug(store, item.id)
         IN  IF existing # NoDoc
             THEN [op |-> "exists", id |-> existing, data |-> <<>>]
             ELSE IF legacy # NoDoc
             THEN [op |-> "update", id |-> legacy,
                   data |-> [slug |-> Sanitize(RawSlug(item))]]
             ELSE [op |-> "create", id |-> NoDoc, data |-> ContributorData(item)]

(***************************************************************************)
(* Reference fields of a project.                                          *)
(***************************************************************************)
\* faulty variant: ids the map does not know are kept (as the id 0)
ResolveIdsKeepUnknown(ids, map) ==
    [i \in DOMAIN ids |-> IF ids[i] \in DOMAIN map THEN map[ids[i]] ELSE NoDoc]

\* ids.map((id) => contributorIdMap.get(id)).filter((id) => typeof id === 'number')
ResolveIds(ids, map) ==
    LET known == SelectSeq(ids, LAMBDA id : id \in DOMAIN map)
    IN  [i \in DOMAIN known |-> map[known[i]]]

\* faulty variant: the field is written whatever the list holds
RelationKeyAlways(field, ids) == field :> ids

\* field: ids.length > 0 ? ids : undefined
RelationKey(field, ids) == IF ids # <<>> THEN field :> ids ELSE <<>>

\* refresh-from-webflow-api.ts reads the '-2' field and the original one
SourceIdsApi(fd, field) == Field(fd, field \o "_2") \o Field(fd, field)

SourceIdsLocal(fd, field) == Field(fd, field)

ProjectBase(item) ==
    [name |-> ProjectName(item), slug |-> Sanitize(RawSlug(item))]

ProjectDataApi(item, map) ==
    ProjectBase(item)
    @@ RelationKey("bitcoinContributors",
          ResolveIds(SourceIdsApi(item.fieldData, "bitcoin_contributors"), map))
    @@ RelationKey("litecoinContributors",
          ResolveIds(SourceIdsApi(item.fieldData, "litecoin_contributors"), map))
    @@ RelationKey("advocates",
          ResolveIds(SourceIdsApi(item.fieldData, "advocates"), map))

ProjectDataLocal(item, map) ==
    ProjectBase(item)
    @@ RelationKey("bitcoinContributors",
          ResolveIds(SourceIdsLocal(item.fieldData, "bitcoin_contributors"), map))
    @@ RelationKey("litecoinContributors",
          ResolveIds(SourceIdsLocal(item.fieldData, "litecoin_contributors"), map))
    @@ RelationKey("advocates",
          ResolveIds(SourceIdsLocal(item.fieldData, "advocates"), map))

\* payloadProjectsBySlug.get(sanitizedSlug) || payloadProjectsBySlug.get(item.id)
PlanProjectApi(item, list, map) ==
    IF Skipped(item) THEN SkipPlan
    ELSE LET bySlug == MapGet(ProjectsBySlug(list), Sanitize(RawSlug(item)))
             existing == IF bySlug # NoDoc THEN bySlug
                         ELSE MapGet(ProjectsBySlug(list), item.id)
         IN  UpdateOrCreate(existing, ProjectDataApi(item, map))

PlanProjectLocal(item, store, map) ==
    IF Skipped(item) THEN SkipPlan
    ELSE LET existing == FindBySlug(store, Sanitize(RawSlug(item)))
             legacy == FindBySlug(store, item.id)
         IN  UpdateOrCreate(IF existing # NoDoc THEN existing ELSE legacy,
                            ProjectDataLocal(item, map))

PlanProjectMigrate(item, store, map) ==
    IF Skipped(item) THEN SkipPlan
    ELSE LET existing == FindBySlug(store, Sanitize(RawSlug(item)))
             legacy == FindBySlug(store, item.id)
         IN  IF existing # NoDoc
             THEN [op |-> "exists", id |-> existing, data |-> <<>>]
             ELSE IF legacy # NoDoc
             THEN [op |-> "update", id |-> legacy,
                   data |-> [slug |-> Sanitize(RawSlug(item))]]
             ELSE [op |-> "create", id |-> NoDoc, data |-> ProjectDataLocal(item, map)]

(***************************************************************************)
(* The upsert: what carrying out a plan does to a collection.              *)
(***************************************************************************)
Rejected(store) == [ok |-> FALSE, outcome |-> "error", id |-> NoDoc, store |-> store]

Execute(store, plan) ==
    CASE plan.op = "exists" ->
            [ok |-> TRUE, outcome |-> "exists", id |-> plan.id, store |-> store]
      [] plan.op = "update" ->
            IF SlugFree(store, plan.id, PatchDoc(store[plan.id], plan.data))
            THEN [ok |-> TRUE, outcome |-> "updated", id |-> plan.id,
                  store |-> [store EXCEPT ![plan.id] = PatchDoc(@, plan.data)]]
            ELSE Rejected(store)
      [] plan.op = "create" ->
            IF SlugFree(store, NoDoc, plan.data)
            THEN [ok |-> TRUE, outcome |-> "created", id |-> NewId(store),
                  store |-> (NewId(store) :> plan.data) @@ store]
            ELSE Rejected(store)

\* faulty variant: the id of a created document is not recorded
IdMapSetOnlyExisting(map, sourceId, r) ==
    IF r.ok /\ r.outcome # "created" THEN (sourceId :> r.id) @@ map ELSE map

\* contributorIdMap.set(item.id, id) / projectIdMap.set(item.id, id)
IdMapSet(map, sourceId, r) ==
    IF r.ok THEN (sourceId :> r.id) @@ map ELSE map

(***************************************************************************)
(* main: the entity-type steps, one after the other.                       *)
(***************************************************************************)
\* faulty variant: projects are refreshed before contributors
StepsOfProjectsFirst(v) ==
    CASE v = "donors" -> <<"donors">>
      [] v = "api" -> <<"projects", "contributors">>
      [] v = "local" -> <<"projects", "contributors", "posts">>
      [] OTHER -> <<"projects", "faqs", "contributors", "posts", "updates">>

StepsOf(v) ==
    CASE v = "donors" -> <<"donors">>
      [] v = "api" -> <<"contributors", "projects">>
      [] v = "local" -> <<"contributors", "projects", "posts">>
      [] OTHER -> <<"contributors", "projects", "faqs", "posts", "updates">>

NextPhase(v, ph) ==
    LET steps == StepsOf(v)
        i == CHOOSE k \in DOMAIN steps : steps[k] = ph
    IN  IF i = Len(steps) THEN "done" ELSE steps[i + 1]

Running == phase \notin {"done", "failed"}

\* What the run printed and did for one record: the document reconciliation
\* matched (NoDoc: none), the outcome, the document written, the data sent and
\* contributorIdMap as it was when the data was built.
\* The source ids the console.warn calls of a turn are about: a skipped
\* record is warned about; the mapping of reference ids prints nothing.
Warned(item, outcome) == IF outcome = "skipped" THEN {item.id} ELSE {}

Entry(item, matched, outcome, target, data) ==
    [kind |-> phase, src |-> item.id, matched |-> matched, outcome |-> outcome,
     target |-> target, data |-> data, cmap |-> contributorIdMap,
     warned |-> Warned(item, outcome)]

Fetched(list) ==
    [kind |-> phase, src |-> <<>>, matched |-> NoDoc, outcome |-> "fetched",
     target |-> Len(list),
     data |-> <<>>, cmap |-> <<>>, warned |-> {}]

\* The step has a list to loop over; an empty list ends the step at once.
StartLoop(list) ==
    /\ toProcess' = list
    /\ idx' = 0
    /\ log' = Append(log, Fetched(list))
    /\ IF list = <<>>
       THEN phase' = NextPhase(variant, phase) /\ pc' = "fetch"
       ELSE phase' = phase /\ pc' = "loop"

\* One record is done: the for loop goes on, or the step returns to main.
EndRecord ==
    /\ idx' = idx + 1
    /\ IF idx + 1 = Len(toProcess)
       THEN phase' = NextPhase(variant, phase) /\ pc' = "fetch"
       ELSE phase' = phase /\ pc' = "loop"

\* faulty variant: no try/catch around the loop body, the error reaches main
CatchRecordErrorRethrow ==
    /\ idx' = idx
    /\ phase' = "failed" /\ pc' = "fetch"

\* catch (error) { console.error(...) }: the loop goes on with the next record
CatchRecordError == EndRecord

InLoop(ph) == phase = ph /\ pc = "loop" /\ idx < Len(toProcess)

Current == toProcess[idx + 1]

\* A request of the fetch phase throws (not a 429): main logs and exits.
FetchThrows ==
    /\ Running /\ pc = "fetch"
    /\ phase \in configured
    /\ failures < MaxFailures
    /\ failures' = failures + 1
    /\ phase' = "failed"
    /\ UNCHANGED <<configured, variant, pc, srcContributors, srcProjects, toProcess, idx,
                   contributors, projects, dependents, lookup,
                   contributorIdMap, projectIdMap, log>>

SourceRelationFields ==
    {"bitcoin_contributors", "bitcoin_contributors_2", "litecoin_contributors",
     "litecoin_contributors_2", "advocates", "advocates_2"}

\* contributorsToMigrate: every id any project refers to
ReferencedContributors(projs) ==
    UNION {Range(Field(projs[i].fieldData, f)) :
              i \in DOMAIN projs, f \in SourceRelationFields}

Active(item) == ~item.isDraft /\ ~item.isArchived

\* refresh-from-webflow-api.ts: all contributors that are not archived, and the
\* archived ones a project refers to; then the contributors listing.
FetchContributorsApi ==
    /\ variant = "api" /\ phase = "contributors" /\ pc = "fetch"
    /\ phase \in configured
    /\ \E o \in Orders(contributors), projectsFetched \in BOOLEAN :
          /\ "projects" \notin configured => ~projectsFetched
          /\ ("projects" \in configured /\ ~projectsFetched)
                => failures < MaxFailures
          /\ failures' = IF projectsFetched \/ "projects" \notin configured
                         THEN failures ELSE failures + 1
          /\ LET referenced == IF projectsFetched
                               THEN ReferencedContributors(srcProjects) ELSE {}
             IN  StartLoop(SelectSeq(srcContributors,
                    LAMBDA c : ~c.isArchived \/ c.id \in referenced))
          /\ lookup' = Listing(contributors, o)
    /\ UNCHANGED <<configured, variant, srcContributors, srcProjects, contributors, projects,
                   dependents, contributorIdMap, projectIdMap>>

\* refresh-from-webflow.ts, migrate-from-webflow.ts: the active contributors
FetchContributorsLocal ==
    /\ variant \in {"local", "migrate"} /\ phase = "contributors" /\ pc = "fetch"
    /\ phase \in configured
    /\ StartLoop(SelectSeq(srcContributors, Active))
    /\ UNCHANGED <<configured, variant, srcContributors, srcProjects, contributors, projects,
                   dependents, lookup, contributorIdMap, projectIdMap,
                   failures>>

\* The body of the contributors loop, given what reconciliation decided.
ContributorStep(plan) ==
    /\ \/ /\ plan.op = "skip"
          /\ log' = Append(log, Entry(Current, NoDoc, "skipped", NoDoc, <<>>))
          /\ EndRecord
          /\ UNCHANGED <<contributors, contributorIdMap, failures>>
       \/ /\ plan.op # "skip"
          /\ failures < MaxFailures
          /\ failures' = failures + 1
          /\ log' = Append(log, Entry(Current, plan.id, "error", NoDoc, plan.data))
          /\ CatchRecordError
          /\ UNCHANGED <<contributors, contributorIdMap>>
       \/ /\ plan.op # "skip"
          /\ LET r == Execute(contributors, plan)
             IN  /\ contributors' = r.store
                 /\ contributorIdMap' = IdMapSet(contributorIdMap, Current.id, r)
                 /\ log' = Append(log, Entry(Current, plan.id, r.outcome, r.id, plan.data))
                 /\ IF r.ok THEN EndRecord ELSE CatchRecordError
          /\ UNCHANGED failures
    /\ UNCHANGED <<configured, variant, srcContributors, srcProjects, toProcess, projects,
                   dependents, lookup, projectIdMap>>

ProcessContributorApi ==
    /\ variant = "api" /\ InLoop("contributors")
    /\ ContributorStep(PlanContributorApi(Current, lookup))

ProcessContributorLocal ==
    /\ variant = "local" /\ InLoop("contributors")
    /\ ContributorStep(PlanContributorLocal(Current, contributors))

ProcessContributorMigrate ==
    /\ variant = "migrate" /\ InLoop("contributors")
    /\ ContributorStep(PlanContributorMigrate(Current, contributors))

Published(item) == Active(item) /\ ~item.fieldData.hidden

FetchProjectsApi ==
    /\ variant = "api" /\ phase = "projects" /\ pc = "fetch"
    /\ phase \in configured
    /\ \E o \in Orders(projects) : lookup' = Listing(projects, o)
    /\ StartLoop(SelectSeq(srcProjects, Published))
    /\ UNCHANGED <<configured, variant, srcContributors, srcProjects, contributors, projects,
                   dependents, contributorIdMap, projectIdMap, failures>>

FetchProjectsLocal ==
    /\ variant \in {"local", "migrate"} /\ phase = "projects" /\ pc = "fetch"
    /\ phase \in configured
    /\ StartLoop(SelectSeq(srcProjects, Published))
    /\ UNCHANGED <<configured, variant, srcContributors, srcProjects, contributors, projects,
                   dependents, lookup, contributorIdMap, projectIdMap,
                   failures>>

\* The body of the projects loop, given what reconciliation decided.
ProjectStep(plan) ==
    /\ \/ /\ plan.op = "skip"
          /\ log' = Append(log, Entry(Current, NoDoc, "skipped", NoDoc, <<>>))
          /\ EndRecord
          /\ UNCHANGED <<projects, projectIdMap, failures>>
       \/ /\ plan.op # "skip"
          /\ failures < MaxFailures
          /\ failures' = failures + 1
          /\ log' = Append(log, Entry(Current, plan.id, "error", NoDoc, plan.data))
          /\ CatchRecordError
          /\ UNCHANGED <<projects, projectIdMap>>
       \/ /\ plan.op # "skip"
          /\ LET r == Execute(projects, plan)
             IN  /\ projects' = r.store
                 /\ projectIdMap' = IdMapSet(projectIdMap, Current.id, r)
                 /\ log' = Append(log, Entry(Current, plan.id, r.outcome, r.id, plan.data))
                 /\ IF r.ok THEN EndRecord ELSE CatchRecordError
          /\ UNCHANGED failures
    /\ UNCHANGED <<configured, variant, srcContributors, srcProjects, toProcess, contributors,
                   dependents, lookup, contributorIdMap>>

ProcessProjectApi ==
    /\ variant = "api" /\ InLoop("projects")
    /\ ProjectStep(PlanProjectApi(Current, lookup, contributorIdMap))

ProcessProjectLocal ==
    /\ variant = "local" /\ InLoop("projects")
    /\ ProjectStep(PlanProjectLocal(Current, projects, contributorIdMap))

ProcessProjectMigrate ==
    /\ variant = "migrate" /\ InLoop("projects")
    /\ ProjectStep(PlanProjectMigrate(Current, projects, contributorIdMap))

\* The collections a run of n records at most starts from.
RunInputs(n) ==
    /\ variant \in {"api", "local", "migrate"}
    /\ srcContributors \in Lists(ContributorPool, n)
    /\ srcProjects \in Lists(ProjectPool, n - Len(srcContributors))
    /\ contributors \in Stores(StoredContributorPool,
            n - Len(srcContributors) - Len(srcProjects))
    /\ projects \in Stores(StoredProjectPool,
            n - Len(srcContributors) - Len(srcProjects)
                - Cardinality(DOMAIN contributors))
    /\ \A k \in DOMAIN projects : RelatedIds(projects[k]) \subseteq DOMAIN contributors
    /\ dependents = NoDependents

\* WEBFLOW_API_TOKEN and WEBFLOW_COLLECTION_ID_<TYPE> are read by the step of
\* the type; "donors" is the step of migrate-matching-donors.ts.
EntityTypes ==
    {"contributors", "projects", "faqs", "posts", "updates", "donors"}

\* main() is entered: nothing fetched, nothing mapped, nothing printed.
MainEntered ==
    /\ phase = Head(StepsOf(variant)) /\ pc = "fetch"
    /\ toProcess = <<>> /\ idx = 0
    /\ lookup = <<>>
    /\ contributorIdMap = <<>> /\ projectIdMap = <<>>
    /\ log = <<>> /\ failures = 0

\* A run with every environment variable set.
RunStart(n) == RunInputs(n) /\ MainEntered /\ configured = EntityTypes

RunInit == RunStart(MaxRecords)

(***************************************************************************)
(* FAQs, posts and updates: they refer to projects through projectIdMap.   *)
(***************************************************************************)
SourceOf(ph) ==
    CASE ph = "faqs" -> SourceFaqs
      [] ph = "posts" -> SourcePosts
      [] ph = "updates" -> SourceUpdates

FetchDependents ==
    /\ phase \in {"faqs", "posts", "updates"} /\ pc = "fetch"
    /\ phase \in configured
    /\ StartLoop(SelectSeq(SourceOf(phase), Active))
    /\ UNCHANGED <<configured, variant, srcContributors, srcProjects, contributors, projects,
                   dependents, lookup, contributorIdMap, projectIdMap, failures>>

\* The body of a create-only loop: skip, or create (which may throw).
DependentStep(skip, data) ==
    /\ \/ /\ skip
          /\ log' = Append(log, Entry(Current, NoDoc, "skipped", NoDoc, <<>>))
          /\ EndRecord
          /\ UNCHANGED <<dependents, failures>>
       \/ /\ ~skip
          /\ failures < MaxFailures
          /\ failures' = failures + 1
          /\ log' = Append(log, Entry(Current, NoDoc, "error", NoDoc, data))
          /\ CatchRecordError
          /\ UNCHANGED dependents
       \/ /\ ~skip
          /\ LET id == NewId(dependents[phase])
             IN  /\ dependents' =
                        [dependents EXCEPT ![phase] = (id :> data) @@ @]
                 /\ log' = Append(log, Entry(Current, NoDoc, "created", id, data))
          /\ EndRecord
          /\ UNCHANGED failures
    /\ UNCHANGED <<configured, variant, srcContributors, srcProjects, toProcess, contributors,
                   projects, lookup, contributorIdMap, projectIdMap>>

\* projectIdMap.get(fieldData.project || ''); if (!projectId) continue
SingleProject(fd) ==
    IF Field(fd, "project") \in DOMAIN projectIdMap
    THEN projectIdMap[Field(fd, "project")] ELSE NoDoc

ProcessFaq ==
    /\ variant = "migrate" /\ InLoop("faqs")
    /\ LET fd == Current.fieldData
       IN  DependentStep(SingleProject(fd) = NoDoc,
              [question |-> OrElse(OrElse(Field(fd, "question"), Field(fd, "name")),
                                   <<"U","n","t","i","t","l","e","d"," ","F","A","Q">>),
               project |-> SingleProject(fd)])

ProcessUpdate ==
    /\ variant = "migrate" /\ InLoop("updates")
    /\ LET fd == Current.fieldData
       IN  DependentStep(SingleProject(fd) = NoDoc,
              [title |-> OrElse(OrElse(Field(fd, "title"), Field(fd, "name")),
                                <<"U","n","t","i","t","l","e","d"," ",
                                  "U","p","d","a","t","e">>),
               project |-> SingleProject(fd)])

ProcessPostMigrate ==
    /\ variant = "migrate" /\ InLoop("posts")
    /\ LET fd == Current.fieldData
           projectIds == ResolveIds(Field(fd, "projects"), projectIdMap)
       IN  DependentStep(projectIds = <<>>,
              [projects |-> projectIds]
                @@ OptionalKey(fd, "x_post_link", "xPostLink")
                @@ OptionalKey(fd, "youtube_link", "youtubeLink")
                @@ OptionalKey(fd, "reddit_link", "redditLink"))

\* refresh-from-webflow.ts: the single link field goes to the column of its
\* host; null is the empty string here.
PostLinks(fd) ==
    LET link == OrElse(OrElse(OrElse(Field(fd, "link"), Field(fd, "x_post_link")),
                              Field(fd, "youtube_link")), Field(fd, "reddit_link"))
        lowerLink == ToLowerCase(link)
        none == [xPostLink |-> <<>>, youtubeLink |-> <<>>, redditLink |-> <<>>]
        legacy == [xPostLink |-> Field(fd, "x_post_link"),
                   youtubeLink |-> Field(fd, "youtube_link"),
                   redditLink |-> Field(fd, "reddit_link")]
    IN  IF link = <<>> THEN legacy
        ELSE IF Includes(lowerLink, XCom) \/ Includes(lowerLink, TwitterCom)
             THEN [none EXCEPT !.xPostLink = link]
        ELSE IF Includes(lowerLink, YoutubeCom) \/ Includes(lowerLink, YoutuBe)
             THEN [none EXCEPT !.youtubeLink = link]
        ELSE IF Includes(lowerLink, RedditCom)
             THEN [none EXCEPT !.redditLink = link]
        ELSE IF legacy # none THEN legacy
        ELSE [none EXCEPT !.xPostLink = link]

AnyLink(d) ==
    OrElse(OrElse(Field(d, "xPostLink"), Field(d, "youtubeLink")),
           Field(d, "redditLink"))

\* payload.find({ collection: 'posts', where: { or: [...] }, limit: 10 })
PostsByLink(posts, links) ==
    {k \in DOMAIN posts :
        \E f \in {"xPostLink", "youtubeLink", "redditLink"} :
            links[f] # <<>> /\ Field(posts[k], f) = links[f]}

ProcessPostLocal ==
    /\ variant = "local" /\ InLoop("posts")
    /\ LET fd == Current.fieldData
           projectIds == ResolveIds(Field(fd, "projects"), projectIdMap)
           links == PostLinks(fd)
           postData == links @@ [projects |-> projectIds]
           hits == IF AnyLink(links) # <<>>
                   THEN PostsByLink(dependents.posts, links) ELSE {}
       IN  \/ /\ projectIds = <<>>
              /\ log' = Append(log, Entry(Current, NoDoc, "skipped", NoDoc, <<>>))
              /\ EndRecord
              /\ UNCHANGED <<dependents, failures>>
           \/ /\ projectIds # <<>>
              /\ failures < MaxFailures
              /\ failures' = failures + 1
              /\ log' = Append(log, Entry(Current, NoDoc, "error", NoDoc, postData))
              /\ CatchRecordError
              /\ UNCHANGED dependents
           \/ /\ projectIds # <<>> /\ hits = {}
              /\ LET id == NewId(dependents.posts)
                 IN  /\ dependents' =
                            [dependents EXCEPT !.posts = (id :> postData) @@ @]
                     /\ log' = Append(log, Entry(Current, NoDoc, "created", id, postData))
              /\ EndRecord
              /\ UNCHANGED failures
           \/ /\ projectIds # <<>>
              /\ \E m \in hits :
                    IF AnyLink(dependents.posts[m]) = AnyLink(links)
                    THEN /\ log' = Append(log, Entry(Current, m, "exists", m, <<>>))
                         /\ UNCHANGED dependents
                    ELSE /\ dependents' = [dependents EXCEPT
                                !.posts[m] = PatchDoc(@, postData)]
                         /\ log' = Append(log, Entry(Current, m, "updated", m, postData))
              /\ EndRecord
              /\ UNCHANGED failures
    /\ UNCHANGED <<configured, variant, srcContributors, srcProjects, toProcess, contributors,
                   projects, lookup, contributorIdMap, projectIdMap>>

(***************************************************************************)
(* A step without its environment variables.                               *)
(***************************************************************************)
Unconfigured(outcome) ==
    [kind |-> phase, src |-> <<>>, matched |-> NoDoc, outcome |-> outcome,
     target |-> NoDoc, data |-> <<>>, cmap |-> <<>>,
     warned |-> IF outcome = "unconfigured" THEN {phase} ELSE {}]

\* faulty variant: the step without its configuration ends the script
SkipUnconfiguredExits ==
    /\ Running /\ pc = "fetch" /\ variant # "donors"
    /\ phase \notin configured
    /\ log' = Append(log, Unconfigured("fatal"))
    /\ phase' = "failed"
    /\ UNCHANGED <<configured, variant, pc, srcContributors, srcProjects,
                   toProcess, idx, contributors, projects, dependents, lookup,
                   contributorIdMap, projectIdMap, failures>>

\* if (!apiToken || !collectionId) { console.warn(...); return }
SkipUnconfigured ==
    /\ Running /\ pc = "fetch" /\ variant # "donors"
    /\ phase \notin configured
    /\ log' = Append(log, Unconfigured("unconfigured"))
    /\ phase' = NextPhase(variant, phase)
    /\ UNCHANGED <<configured, variant, pc, srcContributors, srcProjects,
                   toProcess, idx, contributors, projects, dependents, lookup,
                   contributorIdMap, projectIdMap, failures>>

\* migrateMatchingDonors: console.error(...); process.exit(1)
DonorsUnconfigured ==
    /\ Running /\ pc = "fetch" /\ variant = "donors"
    /\ phase \notin configured
    /\ log' = Append(log, Unconfigured("fatal"))
    /\ phase' = "failed"
    /\ UNCHANGED <<configured, variant, pc, srcContributors, srcProjects,
                   toProcess, idx, contributors, projects, dependents, lookup,
                   contributorIdMap, projectIdMap, failures>>

(***************************************************************************)
(* migrate-matching-donors.ts: the upsert of the matching donors.          *)
(***************************************************************************)
UnknownDonor ==
    <<"U","n","k","n","o","w","n"," ","D","o","n","o","r">>

\* webflowProjectMap (Webflow id -> slug as delivered) joined with
\* payloadProjectSlugMap (slug -> Payload id), for the ids of the donor
SupportedProjects(item) ==
    LET refs == Field(item.fieldData, "supported_projects")
        slugOf(id) ==
            IF "projects" \in configured
                 /\ \E i \in DOMAIN srcProjects : srcProjects[i].id = id
            THEN LET proj == CHOOSE c \in Range(srcProjects) : c.id = id
                 IN  OrElse(Field(proj.fieldData, "slug"), proj.slug)
            ELSE <<>>
        known == SelectSeq(refs, LAMBDA id :
                    /\ slugOf(id) # <<>>
                    /\ FindBySlug(projects, slugOf(id)) # NoDoc)
    IN  [i \in DOMAIN known |-> FindBySlug(projects, slugOf(known[i]))]

\* The type, amount, date, multiplier, status and contributor fields are
\* copied from the item and take no part in the lookup.
DonorData(item) ==
    [webflowId |-> item.id,
     name |-> OrElse(Field(item.fieldData, "name"), UnknownDonor)]
    @@ RelationKey("supportedProjects", SupportedProjects(item))

\* faulty variant: the donor is looked up by its name
FindDonorByName(store, item) ==
    LET name == OrElse(Field(item.fieldData, "name"), UnknownDonor)
    IN  IF \E k \in DOMAIN store : store[k].name = name
        THEN CHOOSE k \in DOMAIN store :
                /\ store[k].name = name
                /\ \A j \in DOMAIN store : store[j].name = name => k <= j
        ELSE NoDoc

\* payload.find({ where: { webflowId: { equals: webflowDonor.id } }, limit: 1 })
FindDonor(store, item) ==
    LET hits == {k \in DOMAIN store : Field(store[k], "webflowId") = item.id}
    IN  IF hits # {}
        THEN CHOOSE k \in hits : \A j \in hits : k <= j
        ELSE NoDoc

\* schema, listings and Payload finds of migrateMatchingDonors, up to the loop
FetchDonors ==
    /\ variant = "donors" /\ phase = "donors" /\ pc = "fetch"
    /\ phase \in configured
    /\ \E donors \in Lists(DonorPool, MaxRunRecords) :
          StartLoop(SelectSeq(donors, Active))
    /\ UNCHANGED <<configured, variant, srcContributors, srcProjects,
                   contributors, projects, dependents, lookup,
                   contributorIdMap, projectIdMap, failures>>

\* The body of the donors loop: find by webflowId, then update or create;
\* an error of the record is caught and the loop goes on.
ProcessDonor ==
    /\ variant = "donors" /\ InLoop("donors")
    /\ LET store == dependents.donors
           existing == FindDonor(store, Current)
           data == DonorData(Current)
       IN  \/ /\ failures < MaxFailures
              /\ failures' = failures + 1
              /\ log' = Append(log, Entry(Current, NoDoc, "error", NoDoc, data))
              /\ CatchRecordError
              /\ UNCHANGED dependents
           \/ /\ existing # NoDoc
              /\ dependents' = [dependents EXCEPT
                      !.donors[existing] = PatchDoc(@, data)]
              /\ log' = Append(log,
                      Entry(Current, existing, "updated", existing, data))
              /\ EndRecord
              /\ UNCHANGED failures
           \/ /\ existing = NoDoc
              /\ dependents' = [dependents EXCEPT
                      !.donors = (NewId(store) :> data) @@ @]
              /\ log' = Append(log,
                      Entry(Current, NoDoc, "created", NewId(store), data))
              /\ EndRecord
              /\ UNCHANGED failures
    /\ UNCHANGED <<configured, variant, srcContributors, srcProjects, toProcess,
                   contributors, projects, lookup, contributorIdMap,
                   projectIdMap>>

FetchIdle ==
    /\ fSource = <<>> /\ fOffset = 0 /\ fAllItems = <<>>
    /\ fPc = "idle" /\ fRequests = <<>> /\ fRateLimited = 0

RunIdle ==
    /\ configured = {}
    /\ variant = "none" /\ phase = "done" /\ pc = "fetch"
    /\ srcContributors = <<>> /\ srcProjects = <<>> /\ toProcess = <<>>
    /\ idx = 0 /\ contributors = <<>> /\ projects = <<>>
    /\ dependents = NoDependents
    /\ lookup = <<>>
    /\ contributorIdMap = <<>> /\ projectIdMap = <<>>
    /\ log = <<>> /\ failures = 0

PureIdle == fn = "none" /\ arg = <<>> /\ out = <<>>

(***************************************************************************)
(* normalize-media-filenames.ts: file names are sequences of characters;   *)
(* a character the decoder produces is its ASCII character (the name of a  *)
(* control character, GRAVE for the grave accent) or "U+" and its code     *)
(* point.                                                                  *)
(***************************************************************************)
maxPasses == 3

Ascii == <<
    "NUL", "SOH", "STX", "ETX", "EOT", "ENQ", "ACK", "BEL",
    "BS", "HT", "LF", "VT", "FF", "CR", "SO", "SI",
    "DLE", "DC1", "DC2", "DC3", "DC4", "NAK", "SYN", "ETB",
    "CAN", "EM", "SUB", "ESC", "FS", "GS", "RS", "US",
    " ", "!", "\"", "#", "$", "%", "&", "'",
    "(", ")", "*", "+", ",", "-", ".", "/",
    "0", "1", "2", "3", "4", "5", "6", "7",
    "8", "9", ":", ";", "<", "=", ">", "?",
    "@", "A", "B", "C", "D", "E", "F", "G",
    "H", "I", "J", "K", "L", "M", "N", "O",
    "P", "Q", "R", "S", "T", "U", "V", "W",
    "X", "Y", "Z", "[", "\\", "]", "^", "_",
    "GRAVE", "a", "b", "c", "d", "e", "f", "g",
    "h", "i", "j", "k", "l", "m", "n", "o",
    "p", "q", "r", "s", "t", "u", "v", "w",
    "x", "y", "z", "{", "|", "}", "~", "DEL" >>

HexDigits ==
    {"0", "1", "2", "3", "4", "5", "6", "7", "8", "9",
     "A", "B", "C", "D", "E", "F", "a", "b", "c", "d", "e", "f"}

HexValue(c) ==
    CASE c = "0" -> 0
      [] c = "1" -> 1
      [] c = "2" -> 2
      [] c = "3" -> 3
      [] c = "4" -> 4
      [] c = "5" -> 5
      [] c = "6" -> 6
      [] c = "7" -> 7
      [] c = "8" -> 8
      [] c = "9" -> 9
      [] c \in {"A", "a"} -> 10
      [] c \in {"B", "b"} -> 11
      [] c \in {"C", "c"} -> 12
      [] c \in {"D", "d"} -> 13
      [] c \in {"E", "e"} -> 14
      [] c \in {"F", "f"} -> 15

\* The octet of the escape %XX at position i of s; -1 when there is none.
OctetAt(s, i) ==
    IF i + 2 <= Len(s) /\ s[i] = "%"
         /\ s[i + 1] \in HexDigits /\ s[i + 2] \in HexDigits
    THEN 16 * HexValue(s[i + 1]) + HexValue(s[i + 2])
    ELSE -1

\* The number of continuation octets the leading octet b asks for.
Continuations(b) ==
    CASE b \in 0..127 -> 0
      [] b \in 194..223 -> 1
      [] b \in 224..239 -> 2
      [] b \in 240..244 -> 3
      [] OTHER -> -1

RECURSIVE CodePoint(_, _)
CodePoint(b, conts) ==
    IF conts = <<>> THEN b
    ELSE CodePoint(b * 64 + (Head(conts) - 128), Tail(conts))

LeadBits(b) ==
    CASE b \in 194..223 -> b - 192
      [] b \in 224..239 -> b - 224
      [] b \in 240..244 -> b - 240

DecodedChar(b, conts) ==
    IF b < 128 THEN Ascii[b + 1]
    ELSE "U+" \o ToString(CodePoint(LeadBits(b), conts))

\* decodeURIComponent from position i on: ok is FALSE where it throws
\* URIError (an escape that is not %XX, octets that are not UTF-8).
RECURSIVE DecodeFrom(_, _)
DecodeFrom(s, i) ==
    IF i > Len(s) THEN [ok |-> TRUE, text |-> <<>>]
    ELSE IF s[i] # "%"
    THEN LET rest == DecodeFrom(s, i + 1)
         IN  [ok |-> rest.ok, text |-> <<s[i]>> \o rest.text]
    ELSE LET b == OctetAt(s, i)
             n == IF b < 0 THEN -1 ELSE Continuations(b)
             conts == [k \in 1..n |-> OctetAt(s, i + 3 * k)]
             wellFormed ==
                 /\ n >= 0
                 /\ \A k \in 1..n : conts[k] \in 128..191
                 /\ b = 224 => conts[1] >= 160
                 /\ b = 237 => conts[1] <= 159
                 /\ b = 240 => conts[1] >= 144
                 /\ b = 244 => conts[1] <= 143
         IN  IF ~wellFormed THEN [ok |-> FALSE, text |-> <<>>]
             ELSE LET rest == DecodeFrom(s, i + 3 * (n + 1))
                  IN  [ok |-> rest.ok,
                       text |-> <<DecodedChar(b, conts)>> \o rest.text]

TryDecodeURIComponent(input) ==
    LET decoded == DecodeFrom(input, 1)
    IN  IF decoded.ok THEN decoded.text ELSE input

\* multiDecode(input, passes): the loop of at most `passes` decodings
RECURSIVE MultiDecodePasses(_, _)
MultiDecodePasses(input, passes) ==
    IF passes = 0 THEN input
    ELSE LET next == TryDecodeURIComponent(input)
         IN  IF next = input THEN input
             ELSE MultiDecodePasses(next, passes - 1)

MultiDecode(input) == MultiDecodePasses(input, maxPasses)

IsSafeFilename(name) ==
    \A i \in DOMAIN name : name[i] \notin {"/", "\\", "NUL"}

\* faulty variant: the target is never found
ExistsNever(dir, name) == FALSE

\* exists(path.join(mediaDir, name)): fs.access resolves "." and ".." to
\* the directory and its parent, and follows a symbolic link; "link" is a
\* link whose target is missing.
Exists(dir, name) ==
    \/ name \in {<<".">>, <<".", ".">>}
    \/ name \in DOMAIN dir /\ dir[name] # "link"

\* fs.rename: the entry gets the new name; an entry of that name is replaced.
Rename(dir, from, to) ==
    [n \in (DOMAIN dir \ {from}) \cup {to} |->
        IF n = to THEN dir[from] ELSE dir[n]]

\* Entries a media directory may hold.
MediaPool == {
    [name |-> <<"n">>, kind |-> "file"],
    [name |-> <<"n", "%", "2", "0">>, kind |-> "file"],
    [name |-> <<"n", "%", "2", "0">>, kind |-> "dir"],
    [name |-> <<"n", " ">>, kind |-> "file"],
    [name |-> <<"n", " ">>, kind |-> "dir"],
    [name |-> <<"n", " ">>, kind |-> "link"],
    [name |-> <<"n", "%", "2", "5", "2", "0">>, kind |-> "file"],
    [name |-> <<"n", "%", "2", "F">>, kind |-> "file"],
    [name |-> <<"n", "%", "5", "C">>, kind |-> "file"],
    [name |-> <<"n", "%", "0", "0">>, kind |-> "file"],
    [name |-> <<"n", "%">>, kind |-> "file"],
    [name |-> <<"%", "2", "E", "%", "2", "E">>, kind |-> "file"],
    [name |-> <<"n", "%", "C", "3", "%", "A", "9">>, kind |-> "file"],
    [name |-> <<"n", "%", "F", "F">>, kind |-> "file"],
    [name |-> <<"%", "2", "5", "2", "5", "2", "5", "2", "0">>, kind |-> "file"] }

MediaDirs ==
    {[n \in {e.name : e \in S} |-> (CHOOSE e \in S : e.name = n).kind] :
        S \in {T \in SUBSET MediaPool :
                  /\ Cardinality(T) <= MaxFiles
                  /\ \A e1, e2 \in T : e1.name = e2.name => e1 = e2}}

MediaIdle ==
    /\ mediaDir = <<>> /\ dryRun = FALSE /\ entries = <<>> /\ entryIdx = 0
    /\ renamed = 0 /\ skipped = 0 /\ mediaPc = "idle"

InitMedia ==
    /\ mediaDir \in MediaDirs
    /\ dryRun \in BOOLEAN
    /\ entries = <<>> /\ entryIdx = 0
    /\ renamed = 0 /\ skipped = 0 /\ mediaPc = "readdir"
    /\ FetchIdle /\ RunIdle /\ PureIdle

\* fs.readdir(mediaDir, { withFileTypes: true }): the entries in some order
Readdir ==
    /\ mediaPc = "readdir"
    /\ \E order \in [1..Cardinality(DOMAIN mediaDir) -> DOMAIN mediaDir] :
          /\ \A i, j \in DOMAIN order : i # j => order[i] # order[j]
          /\ entries' = [i \in DOMAIN order |->
                            [name |-> order[i],
                             isFile |-> mediaDir[order[i]] = "file"]]
    /\ mediaPc' = "loop"
    /\ UNCHANGED <<mediaDir, dryRun, entryIdx, renamed, skipped>>

\* One turn of the for loop of main.
RenameEntry ==
    /\ mediaPc = "loop" /\ entryIdx < Len(entries)
    /\ LET entry == entries[entryIdx + 1]
           fromName == entry.name
           toName == MultiDecode(fromName)
       IN  IF ~entry.isFile \/ toName = fromName
           THEN UNCHANGED <<mediaDir, renamed, skipped, mediaPc>>
           ELSE IF ~IsSafeFilename(toName) \/ Exists(mediaDir, toName)
           THEN /\ skipped' = skipped + 1
                /\ UNCHANGED <<mediaDir, renamed, mediaPc>>
           ELSE IF dryRun
           THEN /\ renamed' = renamed + 1
                /\ UNCHANGED <<mediaDir, skipped, mediaPc>>
           ELSE IF fromName \in DOMAIN mediaDir
           THEN /\ mediaDir' = Rename(mediaDir, fromName, toName)
                /\ renamed' = renamed + 1
                /\ UNCHANGED <<skipped, mediaPc>>
           \* fs.rename rejects: main().catch, process.exit(1)
           ELSE /\ mediaPc' = "failed"
                /\ UNCHANGED <<mediaDir, renamed, skipped>>
    /\ entryIdx' = entryIdx + 1
    /\ UNCHANGED <<dryRun, entries>>

\* The loop has ended: the summary is printed.
MediaDone ==
    /\ mediaPc = "loop" /\ entryIdx = Len(entries)
    /\ mediaPc' = "done"
    /\ UNCHANGED <<mediaDir, dryRun, entries, entryIdx, renamed, skipped>>

NextMedia ==
    \/ Readdir /\ UNCHANGED fetchVars /\ UNCHANGED runVars /\ UNCHANGED pureVars
    \/ RenameEntry /\ UNCHANGED fetchVars /\ UNCHANGED runVars /\ UNCHANGED pureVars
    \/ MediaDone /\ UNCHANGED fetchVars /\ UNCHANGED runVars /\ UNCHANGED pureVars

SpecMedia == InitMedia /\ [][NextMedia]_vars

InitFetch == FetchInit /\ RunIdle /\ PureIdle /\ MediaIdle

NextFetch ==
    \/ FetchPageOk /\ UNCHANGED runVars /\ UNCHANGED pureVars /\ UNCHANGED mediaVars
    \/ FetchPage429 /\ UNCHANGED runVars /\ UNCHANGED pureVars /\ UNCHANGED mediaVars
    \/ FetchPageError /\ UNCHANGED runVars /\ UNCHANGED pureVars /\ UNCHANGED mediaVars

SpecFetch == InitFetch /\ [][NextFetch]_vars

\* The loop of listCollectionItems never stops by itself: the request is
\* answered (a page, a 429 after which the timer of 5 s fires, or an error)
\* and the next statement runs.
SpecFetchFair == SpecFetch /\ WF_vars(NextFetch)

Init == RunInit /\ FetchIdle /\ PureIdle /\ MediaIdle

Next ==
    \/ FetchThrows /\ UNCHANGED fetchVars /\ UNCHANGED pureVars /\ UNCHANGED mediaVars
    \/ FetchContributorsApi /\ UNCHANGED fetchVars /\ UNCHANGED pureVars /\ UNCHANGED mediaVars
    \/ FetchContributorsLocal /\ UNCHANGED fetchVars /\ UNCHANGED pureVars /\ UNCHANGED mediaVars
    \/ ProcessContributorApi /\ UNCHANGED fetchVars /\ UNCHANGED pureVars /\ UNCHANGED mediaVars
    \/ ProcessContributorLocal /\ UNCHANGED fetchVars /\ UNCHANGED pureVars /\ UNCHANGED mediaVars
    \/ ProcessContributorMigrate /\ UNCHANGED fetchVars /\ UNCHANGED pureVars /\ UNCHANGED mediaVars
    \/ FetchProjectsApi /\ UNCHANGED fetchVars /\ UNCHANGED pureVars /\ UNCHANGED mediaVars
    \/ FetchProjectsLocal /\ UNCHANGED fetchVars /\ UNCHANGED pureVars /\ UNCHANGED mediaVars
    \/ ProcessProjectApi /\ UNCHANGED fetchVars /\ UNCHANGED pureVars /\ UNCHANGED mediaVars
    \/ ProcessProjectLocal /\ UNCHANGED fetchVars /\ UNCHANGED pureVars /\ UNCHANGED mediaVars
    \/ ProcessProjectMigrate /\ UNCHANGED fetchVars /\ UNCHANGED pureVars /\ UNCHANGED mediaVars
    \/ FetchDependents /\ UNCHANGED fetchVars /\ UNCHANGED pureVars /\ UNCHANGED mediaVars
    \/ ProcessFaq /\ UNCHANGED fetchVars /\ UNCHANGED pureVars /\ UNCHANGED mediaVars
    \/ ProcessPostMigrate /\ UNCHANGED fetchVars /\ UNCHANGED pureVars /\ UNCHANGED mediaVars
    \/ ProcessPostLocal /\ UNCHANGED fetchVars /\ UNCHANGED pureVars /\ UNCHANGED mediaVars
    \/ ProcessUpdate /\ UNCHANGED fetchVars /\ UNCHANGED pureVars /\ UNCHANGED mediaVars

Spec == Init /\ [][Next]_vars

(***************************************************************************)
(* One contributors step together with its listCollectionItems calls, page *)
(* by page.  The items are the numbers of fSource; the loop creates one    *)
(* document per item.  refreshContributors of refresh-from-webflow-api.ts  *)
(* lists the contributors and then, inside a try/catch, the projects; the  *)
(* other two scripts list the contributors only.                           *)
(***************************************************************************)
StepSizes == {0, limit - 1, limit, limit + 1}

InitStep ==
    /\ \E n \in StepSizes : fSource = [i \in 1..n |-> i]
    /\ fOffset = 0 /\ fAllItems = <<>> /\ fPc = "request"
    /\ fRequests = <<>> /\ fRateLimited = 0
    /\ configured = EntityTypes
    /\ variant \in {"api", "local", "migrate"}
    /\ phase = "contributors" /\ pc = "fetch"
    /\ srcContributors = <<>> /\ srcProjects = <<>> /\ toProcess = <<>>
    /\ idx = 0 /\ contributors = <<>> /\ projects = <<>>
    /\ dependents = NoDependents /\ lookup = <<>>
    /\ contributorIdMap = <<>> /\ projectIdMap = <<>>
    /\ log = <<>> /\ failures = 0
    /\ PureIdle /\ MediaIdle

\* faulty variant: the pages fetched before the error are handed to the loop
ListingThrownSalvage ==
    /\ toProcess' = fAllItems
    /\ phase' = phase /\ pc' = "loop"

\* The error leaves listCollectionItems and the step; main logs and exits.
ListingThrown ==
    /\ toProcess' = toProcess
    /\ phase' = "failed" /\ pc' = pc

\* const webflowContributors = await listCollectionItems(...): the call threw
ContributorsListingThrown ==
    /\ pc = "fetch" /\ fPc = "thrown" /\ phase = "contributors"
    /\ ListingThrown
    /\ UNCHANGED <<configured, variant, srcContributors, srcProjects, idx, contributors,
                   projects, dependents, lookup, contributorIdMap, projectIdMap,
                   log, failures>>
    /\ UNCHANGED fetchVars

\* ... the call returned: the REST script goes on to list the projects, the
\* other scripts enter the loop.
ContributorsListingReturned ==
    /\ pc = "fetch" /\ fPc = "returned" /\ phase = "contributors"
    /\ toProcess' = fAllItems
    /\ IF variant = "api"
       THEN /\ pc' = "fetchProjects"
            /\ fOffset' = 0 /\ fAllItems' = <<>> /\ fPc' = "request"
            /\ fRequests' = <<>>
            /\ UNCHANGED <<fSource, fRateLimited>>
       ELSE /\ pc' = "loop"
            /\ UNCHANGED fetchVars
    /\ UNCHANGED <<configured, variant, phase, srcContributors, srcProjects, idx, contributors,
                   projects, dependents, lookup, contributorIdMap, projectIdMap,
                   log, failures>>

\* try { webflowProjects = await listCollectionItems(...) ... }
ProjectsListingReturned ==
    /\ pc = "fetchProjects" /\ fPc = "returned"
    /\ pc' = "loop"
    /\ UNCHANGED <<configured, variant, phase, srcContributors, srcProjects, toProcess, idx,
                   contributors, projects, dependents, lookup, contributorIdMap,
                   projectIdMap, log, failures>>
    /\ UNCHANGED fetchVars

\* catch (error) { console.warn('Could not fetch projects ...') }
ProjectsListingThrown ==
    /\ pc = "fetchProjects" /\ fPc = "thrown"
    /\ pc' = "loop"
    /\ failures' = failures + 1
    /\ UNCHANGED <<configured, variant, phase, srcContributors, srcProjects, toProcess, idx,
                   contributors, projects, dependents, lookup, contributorIdMap,
                   projectIdMap, log>>
    /\ UNCHANGED fetchVars

\* One iteration of the loop: the item gets a document and a map entry.
StepRecord ==
    /\ pc = "loop" /\ idx < Len(toProcess)
    /\ LET item == toProcess[idx + 1]
           id == NewId(contributors)
       IN  /\ contributors' = (id :> [slug |-> <<item>>]) @@ contributors
           /\ contributorIdMap' = (item :> id) @@ contributorIdMap
    /\ idx' = idx + 1
    /\ UNCHANGED <<configured, variant, phase, pc, srcContributors, srcProjects, toProcess,
                   projects, dependents, lookup, projectIdMap, log, failures>>
    /\ UNCHANGED fetchVars

NextStep ==
    \/ FetchPageOk /\ UNCHANGED runVars /\ UNCHANGED pureVars /\ UNCHANGED mediaVars
    \/ FetchPage429 /\ UNCHANGED runVars /\ UNCHANGED pureVars /\ UNCHANGED mediaVars
    \/ FetchPageError /\ UNCHANGED runVars /\ UNCHANGED pureVars /\ UNCHANGED mediaVars
    \/ ContributorsListingThrown /\ UNCHANGED pureVars /\ UNCHANGED mediaVars
    \/ ContributorsListingReturned /\ UNCHANGED pureVars /\ UNCHANGED mediaVars
    \/ ProjectsListingReturned /\ UNCHANGED pureVars /\ UNCHANGED mediaVars
    \/ ProjectsListingThrown /\ UNCHANGED pureVars /\ UNCHANGED mediaVars
    \/ StepRecord /\ UNCHANGED pureVars /\ UNCHANGED mediaVars

SpecStep == InitStep /\ [][NextStep]_vars

(***************************************************************************)
(* The pure functions applied to arguments of bounded sets.                *)
(***************************************************************************)
SlugAlphabet == {"a", "Z", "7", "-", "_", " "}

TextAlphabet == {"a", "b", " ", "\n"}

\* Status values: up to two words of the rules or others, with decoration.
StatusWords ==
    {WActive, WCompleted, WPaused, WArchived, WLive, WComplete, WDone, WPause,
     WHold, WArchive, <<"x","y","z","-","u","n","k","n","o","w","n">>, <<>>}

StatusTexts ==
    {pre \o w \o post \o v :
        pre \in {<<>>, <<"o","n"," ">>, <<"I","N">>},
        w \in StatusWords \cup {<<"A","c","t","i","v","e">>, <<"H","O","L","D">>},
        post \in {<<>>, <<" ">>},
        v \in StatusWords}

Undefined == <<>>

Args(f) ==
    CASE f = "sanitize" ->
            {[text |-> t] : t \in Strings(SlugAlphabet, MaxSlug)}
      [] f = "status" -> {[text |-> t] : t \in StatusTexts} \cup {Undefined}
      [] f = "lexical" ->
            {[text |-> t] : t \in Strings(TextAlphabet, MaxText)} \cup {Undefined}

InitPure ==
    /\ fn \in {"sanitize", "status", "lexical"}
    /\ arg \in Args(fn)
    /\ out = <<>>
    /\ FetchIdle /\ RunIdle /\ MediaIdle

\* The sanitizer, then the sanitizer on what it returned.
ApplySanitize ==
    /\ fn = "sanitize" /\ Len(out) < 2
    /\ out' = Append(out, Sanitize(IF out = <<>> THEN arg.text ELSE out[Len(out)]))
    /\ UNCHANGED <<fn, arg>>

ApplyNormalizeStatus ==
    /\ fn = "status" /\ out = <<>>
    /\ out' = <<NormalizeStatus(arg)>>
    /\ UNCHANGED <<fn, arg>>

ApplyTextToLexical ==
    /\ fn = "lexical" /\ out = <<>>
    /\ out' = <<TextToLexical(arg)>>
    /\ UNCHANGED <<fn, arg>>

NextPure ==
    \/ ApplySanitize /\ UNCHANGED fetchVars /\ UNCHANGED runVars /\ UNCHANGED mediaVars
    \/ ApplyNormalizeStatus /\ UNCHANGED fetchVars /\ UNCHANGED runVars /\ UNCHANGED mediaVars
    \/ ApplyTextToLexical /\ UNCHANGED fetchVars /\ UNCHANGED runVars /\ UNCHANGED mediaVars

SpecPure == InitPure /\ [][NextPure]_vars

(***************************************************************************)
(* A sequence of runs on the same Payload collections: when a script has   *)
(* ended (done or failed) one of the scripts is started again on the same  *)
(* Webflow collections, with new identifier maps.                          *)
(***************************************************************************)
RunStarted ==
    [kind |-> "run", src |-> <<>>, matched |-> NoDoc, outcome |-> "started",
     target |-> NoDoc, data |-> <<>>, cmap |-> <<>>, warned |-> {}]

Runs == 1 + Len(SelectSeq(log, LAMBDA e : e.kind = "run"))

InitRuns == RunStart(MaxRunRecords) /\ FetchIdle /\ PureIdle /\ MediaIdle

NextRun ==
    /\ ~Running /\ Runs < MaxRuns
    /\ \E v \in {"api", "local", "migrate"} :
          variant' = v /\ phase' = Head(StepsOf(v))
    /\ pc' = "fetch" /\ toProcess' = <<>> /\ idx' = 0
    /\ lookup' = <<>>
    /\ contributorIdMap' = <<>> /\ projectIdMap' = <<>>
    /\ log' = Append(log, RunStarted)
    /\ UNCHANGED <<configured, srcContributors, srcProjects, contributors,
                   projects, dependents, failures>>

NextRuns ==
    \/ Next
    \/ NextRun /\ UNCHANGED fetchVars /\ UNCHANGED pureVars /\ UNCHANGED mediaVars

SpecRuns == InitRuns /\ [][NextRuns]_vars

(***************************************************************************)
(* One run of any of the four scripts, with environment variables missing. *)
(***************************************************************************)
\* No token: no step is configured; otherwise MaxMissing collection ids at
\* most are missing.
Environments ==
    {{}} \cup {EntityTypes \ S : S \in {T \in SUBSET EntityTypes :
                                        Cardinality(T) <= MaxMissing}}

DonorStores == {Restrict(StoredDonorPool, S) : S \in SUBSET DOMAIN StoredDonorPool}

InitConfig ==
    /\ variant \in {"api", "local", "migrate", "donors"}
    /\ srcContributors \in Lists(ContributorPool, MaxRunRecords - 1)
    /\ srcProjects \in Lists(ProjectPool, MaxRunRecords - 1)
    /\ contributors \in Stores(StoredContributorPool, MaxRunRecords - 1)
    /\ projects \in Stores(StoredProjectPool, MaxRunRecords - 1)
    /\ \A k \in DOMAIN projects : RelatedIds(projects[k]) \subseteq DOMAIN contributors
    /\ dependents = NoDependents
    /\ MainEntered
    /\ configured \in Environments
    /\ FetchIdle /\ PureIdle /\ MediaIdle

NextConfig ==
    \/ Next
    \/ SkipUnconfigured /\ UNCHANGED fetchVars /\ UNCHANGED pureVars /\ UNCHANGED mediaVars
    \/ DonorsUnconfigured /\ UNCHANGED fetchVars /\ UNCHANGED pureVars /\ UNCHANGED mediaVars
    \/ FetchDonors /\ UNCHANGED fetchVars /\ UNCHANGED pureVars /\ UNCHANGED mediaVars
    \/ ProcessDonor /\ UNCHANGED fetchVars /\ UNCHANGED pureVars /\ UNCHANGED mediaVars

SpecConfig == InitConfig /\ [][NextConfig]_vars

(***************************************************************************)
(* migrate-matching-donors.ts run again and again.                         *)
(***************************************************************************)
InitDonors ==
    /\ variant = "donors"
    /\ srcContributors = <<>> /\ contributors = <<>>
    /\ srcProjects \in Lists(ProjectPool, MaxRunRecords - 1)
    /\ projects \in Stores(StoredProjectPool, MaxRunRecords - 1)
    /\ \E st \in DonorStores : dependents = [NoDependents EXCEPT !.donors = st]
    /\ MainEntered
    /\ configured = EntityTypes
    /\ FetchIdle /\ PureIdle /\ MediaIdle

\* The script is started again once it has ended.
NextRunDonors ==
    /\ ~Running /\ Runs < MaxRuns /\ variant = "donors"
    /\ phase' = "donors"
    /\ pc' = "fetch" /\ toProcess' = <<>> /\ idx' = 0
    /\ log' = Append(log, RunStarted)
    /\ UNCHANGED <<configured, variant, srcContributors, srcProjects,
                   contributors, projects, dependents, lookup,
                   contributorIdMap, projectIdMap, failures>>

NextDonors ==
    \/ FetchThrows /\ UNCHANGED fetchVars /\ UNCHANGED pureVars /\ UNCHANGED mediaVars
    \/ FetchDonors /\ UNCHANGED fetchVars /\ UNCHANGED pureVars /\ UNCHANGED mediaVars
    \/ ProcessDonor /\ UNCHANGED fetchVars /\ UNCHANGED pureVars /\ UNCHANGED mediaVars
    \/ NextRunDonors /\ UNCHANGED fetchVars /\ UNCHANGED pureVars /\ UNCHANGED mediaVars

SpecDonors == InitDonors /\ [][NextDonors]_vars

(***************************************************************************)
(* Properties of a run.                                                    *)
(***************************************************************************)
Last(s) == s[Len(s)]

\* The log entries of the records of one step, in the order of processing.
Records(kind) ==
    SelectSeq(log, LAMBDA e : e.kind = kind /\ e.outcome # "fetched")

SourceItem(list, id) == CHOOSE c \in Range(list) : c.id = id

SourceField(f) ==
    CASE f = "bitcoinContributors" -> "bitcoin_contributors"
      [] f = "litecoinContributors" -> "litecoin_contributors"
      [] f = "advocates" -> "advocates"

\* The source reference ids the running script reads for a relation field.
SourceRefs(item, f) ==
    IF variant = "api" THEN SourceIdsApi(item.fieldData, SourceField(f))
    ELSE SourceIdsLocal(item.fieldData, SourceField(f))

\* The entry is a project written with the mapped project data.
ProjectDataWritten(e) ==
    /\ e.kind = "projects"
    /\ e.outcome = "created" \/ (e.outcome = "updated" /\ variant # "migrate")

\* C1: no collection ever holds two documents with the same slug, and the
\* documents a run creates carry sanitized, pairwise different slugs; this
\* also when two source records sanitize to the same slug and when the
\* matching document was created earlier in the same run (the REST variant
\* does not see it in its lookup maps: its second create is rejected by the
\* unique slug column).
C1_UniqueSlugs ==
    /\ DistinctSlugs(contributors)
    /\ DistinctSlugs(projects)
    /\ \A i \in DOMAIN log :
          (log[i].kind \in {"contributors", "projects"}
              /\ log[i].outcome = "created") =>
             /\ Sanitize(log[i].data.slug) = log[i].data.slug
             /\ \A j \in DOMAIN log :
                   (j # i /\ log[j].kind = log[i].kind
                        /\ log[j].outcome = "created") =>
                      log[j].data.slug # log[i].data.slug

\* The REST variant created a contributor and later tried to create another
\* one with the same sanitized slug; no request failed for another reason.
C1_Witness ==
    /\ variant = "api" /\ failures = 0
    /\ \E i, j \in DOMAIN log :
          /\ i < j
          /\ log[i].kind = "contributors" /\ log[j].kind = "contributors"
          /\ log[i].outcome = "created"
          /\ log[j].outcome = "error" /\ log[j].matched = NoDoc
          /\ log[j].data.slug = log[i].data.slug
          /\ log[i].target \in DOMAIN contributors

Represented(item, map, store) ==
    item.id \in DOMAIN map /\ map[item.id] \in DOMAIN store

\* C2: after a complete run in which no request failed, every source
\* contributor and every source project that is neither draft nor archived
\* is mapped by the run's id map to a document of the target collection.
C2_Counterexample ==
    (phase = "done" /\ failures = 0) =>
        /\ \A c \in Range(srcContributors) :
              Active(c) => Represented(c, contributorIdMap, contributors)
        /\ \A p \in Range(srcProjects) :
              Active(p) => Represented(p, projectIdMap, projects)

Ids(list, hits) == {list[i].id : i \in hits}

\* The documents of the listing each strategy of the cascade hits, with the
\* comparison keys the lookup maps are built with.
SlugHits(item, list) ==
    Ids(list, {i \in DOMAIN list : SlugKey(list[i]) = Sanitize(RawSlug(item))})

NameHits(item, list) ==
    IF ContributorName(item) = UnknownContributor THEN {}
    ELSE Ids(list, {i \in DOMAIN list :
            /\ list[i].name # <<>>
            /\ NameKey(list[i]) = Trim(ToLowerCase(ContributorName(item)))})

OriginalSlugHits(item, list) ==
    LET originalSlug ==
            Trim(ToLowerCase(OrElse(Field(item.fieldData, "slug"), item.slug)))
    IN  IF originalSlug = <<>> THEN {}
        ELSE Ids(list, {i \in DOMAIN list : SlugKey(list[i]) = originalSlug})

\* The same three strategies with the comparisons as the claim words them:
\* slug equal to the sanitized slug, name equal up to case, slug equal to the
\* original slug.
ExactSlugHits(item, list) ==
    Ids(list, {i \in DOMAIN list : list[i].slug = Sanitize(RawSlug(item))})

ExactNameHits(item, list) ==
    IF ContributorName(item) = UnknownContributor THEN {}
    ELSE Ids(list, {i \in DOMAIN list :
            ToLowerCase(list[i].name) = ToLowerCase(ContributorName(item))})

ExactOriginalSlugHits(item, list) ==
    LET originalSlug == OrElse(Field(item.fieldData, "slug"), item.slug)
    IN  IF originalSlug = <<>> THEN {}
        ELSE Ids(list, {i \in DOMAIN list : list[i].slug = originalSlug})

\* The matched document is the one the first hitting strategy gives.
FirstHit(e, bySlug, byName, byOriginalSlug) ==
    CASE bySlug # {} -> e.matched \in bySlug
      [] bySlug = {} /\ byName # {} -> e.matched \in byName
      [] bySlug = {} /\ byName = {} /\ byOriginalSlug # {} ->
            e.matched \in byOriginalSlug
      [] OTHER -> e.matched = NoDoc /\ e.outcome # "updated"

\* lookup still is the contributors listing the loop works with
InContributorsStep ==
    variant = "api" /\ \A i \in DOMAIN log : log[i].kind = "contributors"

Reconciled(e) == e.outcome \in {"created", "updated", "error"}

\* C3 (amended): refreshContributors of the REST variant matches against the
\* contributors listed before the loop, comparing lower-cased, trimmed
\* target slugs and names: first a target whose slug key is the sanitized
\* slug, else (source name given and not the placeholder) a target whose
\* name key is the lower-cased, trimmed source name, else a target whose slug
\* key is the lower-cased, trimmed original slug, else a create.
C3_MatchCascade ==
    InContributorsStep =>
        \A i \in DOMAIN log : Reconciled(log[i]) =>
            LET item == SourceItem(srcContributors, log[i].src)
            IN  FirstHit(log[i], SlugHits(item, lookup), NameHits(item, lookup),
                         OriginalSlugHits(item, lookup))

\* A slug hit and a name hit on two different documents: the slug hit won.
C3_Witness ==
    /\ InContributorsStep
    /\ \E i \in DOMAIN log :
          /\ log[i].outcome = "updated"
          /\ LET item == SourceItem(srcContributors, log[i].src)
             IN  /\ log[i].matched \in SlugHits(item, lookup)
                 /\ NameHits(item, lookup) # {}
                 /\ log[i].matched \notin NameHits(item, lookup)

\* C3 as stated: the matched target is the first hit of (1) slug equal to the
\* sanitized slug, (2) name equal to the source name up to case, (3) slug
\* equal to the original slug; with no hit the record is created.
C3_Counterexample ==
    InContributorsStep =>
        \A i \in DOMAIN log : Reconciled(log[i]) =>
            LET item == SourceItem(srcContributors, log[i].src)
            IN  FirstHit(log[i], ExactSlugHits(item, lookup),
                         ExactNameHits(item, lookup),
                         ExactOriginalSlugHits(item, lookup))

\* C4: the id of a contributor created in the run is in contributorIdMap
\* under its source id from the step that created it on, and a project
\* written later in the run that refers to the contributor has the id in the
\* mapped field; a field whose only reference is that contributor holds
\* exactly that one id.
C4_CreatedIdMapped ==
    /\ \A i \in DOMAIN log :
          (log[i].kind = "contributors" /\ log[i].outcome = "created") =>
             /\ log[i].src \in DOMAIN contributorIdMap
             /\ contributorIdMap[log[i].src] = log[i].target
    /\ \A i, j \in DOMAIN log :
          (/\ i < j
           /\ log[i].kind = "contributors" /\ log[i].outcome = "created"
           /\ ProjectDataWritten(log[j])) =>
             \A f \in RelationFields :
                LET refs == SourceRefs(SourceItem(srcProjects, log[j].src), f)
                IN  /\ log[i].src \in Range(refs) =>
                          /\ f \in DOMAIN log[j].data
                          /\ log[i].target \in Range(log[j].data[f])
                    /\ refs = <<log[i].src>> =>
                          Field(log[j].data, f) = <<log[i].target>>

C4_Witness ==
    \E i, j \in DOMAIN log :
        /\ i < j
        /\ log[i].kind = "contributors" /\ log[i].outcome = "created"
        /\ log[j].kind = "projects" /\ log[j].outcome = "created"
        /\ SourceRefs(SourceItem(srcProjects, log[j].src), "bitcoinContributors")
              = <<log[i].src>>
        /\ Field(log[j].data, "bitcoinContributors") = <<log[i].target>>
        /\ Field(projects[log[j].target], "bitcoinContributors")
              = <<log[i].target>>

\* C5: every id in a relation field of the data written for a project is
\* the value contributorIdMap had, when the data was built, for one of the
\* project's source reference ids of that field, and is the id of a document
\* of the contributors collection; the field has one id per mapped reference,
\* nothing for a reference without map entry.
C5_RelationsFromMap ==
    \A i \in DOMAIN log :
        (log[i].kind = "projects" /\ log[i].outcome \in {"created", "updated"}) =>
            \A f \in RelationFields \cap DOMAIN log[i].data :
                LET refs == SourceRefs(SourceItem(srcProjects, log[i].src), f)
                    ids == log[i].data[f]
                IN  /\ \A k \in DOMAIN ids :
                          /\ ids[k] \in DOMAIN contributors
                          /\ \E r \in Range(refs) :
                                r \in DOMAIN log[i].cmap /\ log[i].cmap[r] = ids[k]
                    /\ Len(ids) = Cardinality({k \in DOMAIN refs :
                                                  refs[k] \in DOMAIN log[i].cmap})

\* Two references, one of them without map entry: one id written.
C5_Witness ==
    \E i \in DOMAIN log :
        /\ log[i].kind = "projects" /\ log[i].outcome = "created"
        /\ Len(SourceRefs(SourceItem(srcProjects, log[i].src),
                          "litecoinContributors")) = 2
        /\ Len(Field(log[i].data, "litecoinContributors")) = 1
        /\ Field(projects[log[i].target], "litecoinContributors")
              = log[i].data.litecoinContributors

Rank(kind) ==
    CASE kind = "contributors" -> 1
      [] kind = "projects" -> 2
      [] OTHER -> 3

\* The step fetched its records and has an entry for each of them.
StepFinished(kind) ==
    \E i \in DOMAIN log :
        /\ log[i].kind = kind /\ log[i].outcome = "fetched"
        /\ Len(Records(kind)) = log[i].target

\* C6: the steps run in the order contributors, projects, FAQs / posts /
\* updates: nothing of a step happens before the last record of the step
\* before it is done; no project is mapped or written during the contributor
\* step, no FAQ, post or update before the project step is over.
C6_StepOrder ==
    /\ \A i, j \in DOMAIN log :
          i < j => Rank(log[i].kind) <= Rank(log[j].kind)
    /\ \A j \in DOMAIN log : \A kind \in {"contributors", "projects"} :
          Rank(log[j].kind) > Rank(kind) => StepFinished(kind)
    /\ phase = "contributors" => projectIdMap = <<>>
    /\ phase \in {"contributors", "projects"} => dependents = NoDependents

C6_Witness ==
    /\ variant = "migrate" /\ phase = "done"
    /\ \E i, j, k \in DOMAIN log :
          /\ i < j /\ j < k
          /\ log[i].kind = "contributors" /\ log[i].outcome = "created"
          /\ log[j].kind = "projects" /\ log[j].outcome = "created"
          /\ log[k].kind = "faqs" /\ log[k].outcome = "created"

\* C7: right after a refresh run updated the document matched to a source
\* record, the source id is mapped to the document and every mapped field of
\* the document, relation fields included, has the value mapped from the
\* source (no reference mapped: no id in the relation field).
C7_Counterexample ==
    (/\ variant \in {"api", "local"}
     /\ log # <<>>
     /\ Last(log).kind \in {"contributors", "projects"}
     /\ Last(log).outcome = "updated") =>
        LET e == Last(log)
        IN  IF e.kind = "contributors"
            THEN LET item == SourceItem(srcContributors, e.src)
                     doc == contributors[e.target]
                 IN  /\ contributorIdMap[e.src] = e.target
                     /\ doc.name = ContributorName(item)
                     /\ doc.slug = Sanitize(RawSlug(item))
                     /\ Field(doc, "twitterLink")
                           = Field(item.fieldData, "twitter_link")
            ELSE LET item == SourceItem(srcProjects, e.src)
                     doc == projects[e.target]
                 IN  /\ projectIdMap[e.src] = e.target
                     /\ doc.name = ProjectName(item)
                     /\ doc.slug = Sanitize(RawSlug(item))
                     /\ \A f \in RelationFields :
                           Field(doc, f) = ResolveIds(SourceRefs(item, f), e.cmap)

\* C8: the step in which a record fails writes nothing and maps nothing, and
\* goes on with the next record of the loop (the run does not fail); the
\* source id of a failed record has no entry in the id map of its step.
C8_RecordErrorCaught ==
    /\ [][(Len(log') = Len(log) + 1 /\ log'[Len(log')].outcome = "error") =>
            /\ contributorIdMap' = contributorIdMap
            /\ projectIdMap' = projectIdMap
            /\ contributors' = contributors
            /\ projects' = projects
            /\ dependents' = dependents
            /\ idx' = idx + 1
            /\ phase' # "failed"
            /\ idx + 1 < Len(toProcess) => (phase' = phase /\ pc' = "loop")]_vars
    /\ [](\A i \in DOMAIN log : log[i].outcome = "error" =>
            /\ log[i].kind = "contributors" => log[i].src \notin DOMAIN contributorIdMap
            /\ log[i].kind = "projects" => log[i].src \notin DOMAIN projectIdMap)

\* A contributor was created, the next one failed, the one after it was
\* processed; the first is still in the collection.
C8_Witness ==
    \E i \in DOMAIN log :
        /\ i + 2 \in DOMAIN log
        /\ log[i].kind = "contributors" /\ log[i + 2].kind = "contributors"
        /\ log[i].outcome = "created"
        /\ log[i + 1].outcome = "error"
        /\ log[i + 2].outcome \in {"created", "updated"}
        /\ log[i].target \in DOMAIN contributors
        /\ log[i + 1].src \notin DOMAIN contributorIdMap
        /\ log[i + 2].src \in DOMAIN contributorIdMap


(***************************************************************************)
(* Properties of listCollectionItems.                                      *)
(***************************************************************************)
Offsets(n) == [i \in 1..n |-> (i - 1) * limit]

PagesOf(source) == (Len(source) \div limit) + 1

\* C9: with no failing request, the offsets requested are 0, 100, 200, ...
\* up to and including the first page shorter than 100 items, and the value
\* returned is the source collection itself: every item once, in source order.
C9_FetchAllPages ==
    /\ fRateLimited = 0 => fRequests = Offsets(Len(fRequests))
    /\ (fPc = "returned" /\ fRateLimited = 0) =>
          /\ fAllItems = fSource
          /\ fRequests = Offsets(PagesOf(fSource))

C9_Witness ==
    /\ fPc = "returned" /\ fRateLimited = 0
    /\ Len(fSource) = 2 * limit
    /\ fRequests = <<0, limit, 2 * limit>>

\* C10: a 429 response changes neither offset nor allItems and the loop asks
\* for the same page again; however many 429s occur (the code counts none),
\* the returned list is the one a fetch without 429 returns, and each 429
\* costs exactly one extra request.
C10_RateLimitRetry ==
    /\ [][fRateLimited' = fRateLimited + 1 =>
            /\ fOffset' = fOffset
            /\ fAllItems' = fAllItems
            /\ fPc' = "request"]_vars
    /\ [](fPc = "returned" =>
            /\ fAllItems = fSource
            /\ Len(fRequests) = PagesOf(fSource) + fRateLimited)

C10_Witness ==
    /\ fPc = "returned" /\ fRateLimited = 2
    /\ Len(fSource) = limit + 1
    /\ fRequests = <<0, limit, limit, limit>>

\* A raw slug with no letter and no digit: empty, whitespace, or nothing the
\* sanitizer keeps.
NoSlug(item) ==
    \A i \in DOMAIN RawSlug(item) :
        ToLowerChar(RawSlug(item)[i]) \notin Range(Lower) \cup Digits

\* C14: a contributor or project whose raw slug is empty or whitespace, or
\* whose sanitized slug is empty, is skipped with a warning: its turn of the
\* loop writes no document, adds no entry to either identifier map, is not
\* an error, and the loop goes on with the next record (or the next step).
C14_SkipsBlankSlug ==
    [][(/\ pc = "loop" /\ phase \in {"contributors", "projects"}
        /\ idx < Len(toProcess)
        /\ NoSlug(toProcess[idx + 1]))
       => /\ contributors' = contributors /\ projects' = projects
          /\ contributorIdMap' = contributorIdMap
          /\ projectIdMap' = projectIdMap
          /\ failures' = failures
          /\ log' = Append(log, [kind |-> phase, src |-> toProcess[idx + 1].id,
                                 matched |-> NoDoc, outcome |-> "skipped",
                                 target |-> NoDoc, data |-> <<>>,
                                 cmap |-> contributorIdMap,
                                 warned |-> {toProcess[idx + 1].id}])
          /\ idx' = idx + 1
          /\ IF idx + 1 < Len(toProcess)
             THEN phase' = phase /\ pc' = "loop"
             ELSE phase' = NextPhase(variant, phase) /\ pc' = "fetch"]_vars

\* A contributor with a whitespace slug was skipped and the next one was
\* created; a project with an all-hyphen slug was skipped and the run went on
\* to the next step.
C14_Witness ==
    /\ \E i \in DOMAIN log :
          /\ log[i].src = W("7") /\ log[i].outcome = "skipped"
          /\ i < Len(log) /\ log[i + 1].kind = "contributors"
          /\ log[i + 1].outcome = "created"
    /\ \E i \in DOMAIN log :
          /\ log[i].src = X("5") /\ log[i].outcome = "skipped"
    /\ phase \notin {"contributors", "projects", "failed"}
    /\ W("7") \notin DOMAIN contributorIdMap
    /\ X("5") \notin DOMAIN projectIdMap

\* The positions of a reference array whose id the map resolves.
Resolvable(refs, map) == {k \in DOMAIN refs : refs[k] \in DOMAIN map}

\* The k-th smallest element of a set of numbers.
Nth(S, k) == CHOOSE x \in S : Cardinality({y \in S : y < x}) = k - 1

\* C18: in the data written for a project a relation field is absent when
\* its source reference array is empty or absent or when none of its ids is
\* in contributorIdMap, never an empty list; when at least one id resolves
\* the field is the list of the resolved ids, in the order of the source.
C18_RelationAbsentOrResolved ==
    \A i \in DOMAIN log :
        ProjectDataWritten(log[i]) =>
            \A f \in RelationFields :
                LET refs == SourceRefs(SourceItem(srcProjects, log[i].src), f)
                    hits == Resolvable(refs, log[i].cmap)
                IN  /\ hits = {} => f \notin DOMAIN log[i].data
                    /\ hits # {} =>
                          /\ f \in DOMAIN log[i].data
                          /\ log[i].data[f] =
                                [k \in 1..Cardinality(hits) |->
                                    log[i].cmap[refs[Nth(hits, k)]]]

\* A project written with three kinds of field: one whose only reference
\* has no map entry (absent), one with no source array (absent), one with a
\* resolved reference (a list).
C18_Witness ==
    \E i \in DOMAIN log :
        /\ ProjectDataWritten(log[i])
        /\ SourceRefs(SourceItem(srcProjects, log[i].src), "advocates") # <<>>
        /\ "advocates" \notin DOMAIN log[i].data
        /\ SourceRefs(SourceItem(srcProjects, log[i].src),
                      "litecoinContributors") = <<>>
        /\ "litecoinContributors" \notin DOMAIN log[i].data
        /\ "bitcoinContributors" \in DOMAIN log[i].data
        /\ log[i].data.bitcoinContributors # <<>>

\* C19 (does not hold): whenever a source reference id of a project has no
\* entry in contributorIdMap and is left out of the relation field written,
\* the turn logs a warning for that id.
C19_Counterexample ==
    \A i \in DOMAIN log :
        ProjectDataWritten(log[i]) =>
            \A f \in RelationFields :
                LET refs == SourceRefs(SourceItem(srcProjects, log[i].src), f)
                IN  \A k \in DOMAIN refs :
                        refs[k] \notin DOMAIN log[i].cmap
                            => refs[k] \in log[i].warned

(***************************************************************************)
(* Properties of a sequence of runs.                                       *)
(***************************************************************************)
\* The documents reconciliation can match a source record with, in the
\* state the record's turn starts from: the REST script looks in its
\* listing, the other two scripts query the collection.
Candidates(item) ==
    LET slugs == {Sanitize(RawSlug(item)), item.id}
    IN  CASE phase = "contributors" /\ variant = "api" ->
                SlugHits(item, lookup) \cup NameHits(item, lookup)
                    \cup OriginalSlugHits(item, lookup)
          [] phase = "contributors" /\ variant # "api" ->
                {k \in DOMAIN contributors : contributors[k].slug \in slugs}
          [] phase = "projects" /\ variant = "api" ->
                Ids(lookup, {i \in DOMAIN lookup : lookup[i].slug \in slugs})
          [] phase = "projects" /\ variant # "api" ->
                {k \in DOMAIN projects : projects[k].slug \in slugs}

\* C20: no step of any run removes a document: the ids of every collection
\* only grow over a sequence of runs. The turn of a contributor or project
\* creates a document only when reconciliation has no document to match;
\* in a refresh run, the first or a later one, a record with a match gets an
\* update of a matching document (which may fail), not a create.
C20_NeverDeletedCreatedOnce ==
    [][/\ DOMAIN contributors \subseteq DOMAIN contributors'
       /\ DOMAIN projects \subseteq DOMAIN projects'
       /\ \A k \in DOMAIN dependents :
             DOMAIN dependents[k] \subseteq DOMAIN dependents'[k]
       /\ (pc = "loop" /\ phase \in {"contributors", "projects"}
              /\ idx < Len(toProcess)) =>
             LET item == toProcess[idx + 1]
                 created == IF phase = "contributors"
                            THEN DOMAIN contributors' \ DOMAIN contributors
                            ELSE DOMAIN projects' \ DOMAIN projects
             IN  /\ created # {} =>
                       /\ Candidates(item) = {}
                       /\ Last(log').outcome = "created"
                 /\ (Candidates(item) # {} /\ ~NoSlug(item)
                        /\ variant \in {"api", "local"}) =>
                       /\ created = {}
                       /\ Last(log').outcome \in {"updated", "error"}
                       /\ Last(log').matched \in Candidates(item)]_vars

\* A contributor and a project created by one run are updated by the next
\* run, a refresh; both collections hold one document.
C20_Witness ==
    \E i, j, k \in DOMAIN log :
        /\ i < j /\ j < k /\ log[j].kind = "run"
        /\ log[i].kind = "contributors" /\ log[i].outcome = "created"
        /\ log[k].kind = "projects" /\ log[k].outcome = "updated"
        /\ \E m \in (i + 1)..(j - 1) :
              /\ log[m].kind = "projects" /\ log[m].outcome = "created"
              /\ log[m].src = log[k].src /\ log[m].target = log[k].target
        /\ \E m \in (j + 1)..(k - 1) :
              /\ log[m].kind = "contributors" /\ log[m].outcome = "updated"
              /\ log[m].src = log[i].src /\ log[m].target = log[i].target
        /\ Cardinality(DOMAIN contributors) = 1
        /\ Cardinality(DOMAIN projects) = 1

(***************************************************************************)
(* Properties of a step with its listings.                                 *)
(***************************************************************************)
\* C11 (amended): an error other than 429 on any page makes
\* listCollectionItems throw; the pages already fetched never reach the
\* caller, which only ever holds a complete listing.  When the listing of the
\* step's own collection throws, the run fails and the step writes nothing.
\* Only the projects listing inside refreshContributors of the REST script is
\* caught: that step goes on and writes its contributors.
C11_ListingThrows ==
    /\ toProcess \in {<<>>, fSource}
    /\ phase = "failed" => (fPc = "thrown" /\ pc = "fetch")
    /\ (fPc = "thrown" /\ pc = "fetch") =>
          /\ toProcess = <<>> /\ idx = 0
          /\ contributors = <<>> /\ contributorIdMap = <<>>
    /\ (fPc = "thrown" /\ pc # "fetch") =>
          /\ variant = "api" /\ pc \in {"fetchProjects", "loop"}
          /\ pc = "loop" => failures = 1
          /\ toProcess = fSource

\* The second page threw: a full first page was fetched and is lost.
C11_Witness ==
    /\ phase = "failed" /\ fPc = "thrown"
    /\ Len(fAllItems) = limit /\ fRequests = <<0, limit>>
    /\ toProcess = <<>> /\ contributors = <<>>

\* C11 as stated: once a listing of the step threw, no document is written
\* in that step.
C11_Counterexample ==
    fPc = "thrown" => (contributors = <<>> /\ contributorIdMap = <<>>)

(***************************************************************************)
(* Properties of the pure mapping functions.                               *)
(***************************************************************************)
\* C12: the slug sanitizer is idempotent: sanitizing what the sanitizer
\* returned gives the same string again.
C12_SanitizeIdempotent ==
    (fn = "sanitize" /\ Len(out) = 2) => out[2] = out[1]

\* An input the sanitizer changes in every stage, sanitized twice.
C12_Witness ==
    /\ fn = "sanitize" /\ Len(out) = 2
    /\ arg.text = <<"-", "_", "Z", " ">>
    /\ out[1] = <<"z">> /\ out[2] = <<"z">>

WellFormedSlug(s) ==
    /\ \A i \in DOMAIN s : s[i] \in Range(Lower) \cup Digits \cup {"-"}
    /\ s # <<>> => (s[1] # "-" /\ s[Len(s)] # "-")
    /\ \A i \in 1..(Len(s) - 1) : ~(s[i] = "-" /\ s[i + 1] = "-")

\* C13: whatever the input, the sanitizer returns only characters a-z, 0-9
\* and '-', with no '-' at the start or the end and no two '-' in a row.
C13_SanitizeWellFormed ==
    fn = "sanitize" => \A i \in DOMAIN out : WellFormedSlug(out[i])

\* Upper case, an invalid character and a space in the middle of the input.
C13_Witness ==
    /\ fn = "sanitize" /\ out # <<>>
    /\ arg.text = <<"Z", "_", " ", "7">>
    /\ out[1] = <<"z", "-", "7">>

\* The substring rules in the order they are tried: the words, the result.
StatusRules ==
    << [words |-> {WActive, WLive}, status |-> WActive],
       [words |-> {WComplete, WDone}, status |-> WCompleted],
       [words |-> {WPause, WHold}, status |-> WPaused],
       [words |-> {WArchive}, status |-> WArchived] >>

RulesMatching(s) ==
    {i \in DOMAIN StatusRules : \E w \in StatusRules[i].words : Includes(s, w)}

\* C15: status normalization is total into {active, completed, paused,
\* archived}: the value is lower-cased; one of the four passes through;
\* otherwise the first substring rule that matches decides (active/live,
\* complete/done, pause/hold, archive), and with no match it is active.
\* 'Active ' gives active, 'on hold' paused, 'xyz-unknown' active.
C15_StatusNormalized ==
    (fn = "status" /\ out # <<>>) =>
        LET s == ToLowerCase(IF arg = Undefined THEN <<>> ELSE arg.text)
            hits == RulesMatching(s)
        IN  /\ out[1] \in {WActive, WCompleted, WPaused, WArchived}
            /\ s \in {WActive, WCompleted, WPaused, WArchived} => out[1] = s
            /\ (s \notin {WActive, WCompleted, WPaused, WArchived} /\ hits # {})
                  => out[1] = StatusRules[CHOOSE i \in hits :
                                            \A j \in hits : i <= j].status
            /\ (s \notin {WActive, WCompleted, WPaused, WArchived} /\ hits = {})
                  => out[1] = WActive
            /\ s = <<"a","c","t","i","v","e"," ">> => out[1] = WActive
            /\ s = <<"o","n"," ","h","o","l","d">> => out[1] = WPaused
            /\ s = <<"x","y","z","-","u","n","k","n","o","w","n">>
                  => out[1] = WActive

\* 'on HOLD done' matches two rules; the earlier one (complete/done) wins.
C15_Witness ==
    /\ fn = "status" /\ arg # Undefined
    /\ arg.text = <<"o","n"," ","H","O","L","D">> \o WDone
    /\ out = <<WCompleted>>

\* The lines of a text, cut at every newline.
LinesOf(text) ==
    LET cuts == {0, Len(text) + 1} \cup {i \in DOMAIN text : text[i] = "\n"}
        cut(k) == CHOOSE x \in cuts : Cardinality({y \in cuts : y < x}) = k - 1
    IN  [k \in 1..(Cardinality(cuts) - 1) |->
            SubSeq(text, cut(k) + 1, cut(k + 1) - 1)]

IsBlank(s) == \A i \in DOMAIN s : s[i] \in Whitespace

\* C16: textToLexical of undefined, of the empty string and of a text of
\* whitespace and blank lines only returns a root with exactly one child, a
\* paragraph without children; it never returns a root without children.
C16_EmptyTextOneParagraph ==
    (fn = "lexical" /\ out # <<>>) =>
        /\ Len(out[1].root.children) >= 1
        /\ (arg = Undefined \/ IsBlank(IF arg = Undefined THEN <<>> ELSE arg.text))
              => /\ out[1].root.type = "root"
                 /\ Len(out[1].root.children) = 1
                 /\ out[1].root.children[1].type = "paragraph"
                 /\ out[1].root.children[1].children = <<>>

\* Two blank lines and a line of one space.
C16_Witness ==
    /\ fn = "lexical" /\ arg # Undefined
    /\ arg.text = <<"\n", "\n", " ">>
    /\ out = <<EmptyDocument>>

\* C17: for a text with at least one non-blank line the paragraphs of the
\* root are, in order, the non-blank lines of the text cut at newlines; the
\* i-th paragraph holds one text node, the i-th non-blank line trimmed.
C17_ParagraphPerLine ==
    (fn = "lexical" /\ out # <<>> /\ arg # Undefined) =>
        LET lines == SelectSeq(LinesOf(arg.text), LAMBDA l : ~IsBlank(l))
            paragraphs == out[1].root.children
        IN  lines # <<>> =>
              /\ Len(paragraphs) = Len(lines)
              /\ \A i \in DOMAIN lines :
                    /\ paragraphs[i].type = "paragraph"
                    /\ Len(paragraphs[i].children) = 1
                    /\ paragraphs[i].children[1].type = "text"
                    /\ paragraphs[i].children[1].text = Trim(lines[i])

\* ' a', a blank line, 'b': two paragraphs, 'a' and 'b'.
C17_Witness ==
    /\ fn = "lexical" /\ arg # Undefined
    /\ arg.text = <<" ", "a", "\n", "\n", "b">>
    /\ out # <<>>
    /\ Len(out[1].root.children) = 2
    /\ out[1].root.children[1].children[1].text = <<"a">>
    /\ out[1].root.children[2].children[1].text = <<"b">>

(***************************************************************************)
(* Properties of the migration run twice.                                  *)
(***************************************************************************)
\* The first run of the sequence was the migration: only it has a FAQ step.
FirstRunMigrated ==
    \E i \in DOMAIN log :
        /\ log[i].kind = "faqs"
        /\ \A j \in 1..i : log[j].kind # "run"

\* C21 (does not hold): the migration run a second time on the same Webflow
\* collections creates no record for a source item the first run created a
\* record for, in any of the five collections.
C21_Counterexample ==
    (FirstRunMigrated /\ Runs = 2 /\ variant = "migrate") =>
        \A i, j \in DOMAIN log :
            (/\ i < j
             /\ log[i].kind = log[j].kind /\ log[i].src = log[j].src
             /\ log[i].outcome = "created")
                => log[j].outcome # "created"

\* The documents of a collection whose slug is the sanitized slug of the item.
SameSlug(store, item) ==
    {k \in DOMAIN store : store[k].slug = Sanitize(RawSlug(item))}

\* C22: in the migration the turn of a contributor or project whose
\* sanitized slug is the slug of a stored document changes no document of
\* any collection and creates none; unless a request of the turn throws,
\* its one effect is the entry source id -> id of that document in the
\* identifier map of the step.
C22_ExistingLeftUnmodified ==
    [][(/\ variant = "migrate" /\ pc = "loop"
        /\ phase \in {"contributors", "projects"}
        /\ idx < Len(toProcess)
        /\ ~NoSlug(toProcess[idx + 1])
        /\ SameSlug(IF phase = "contributors" THEN contributors ELSE projects,
                    toProcess[idx + 1]) # {})
       => LET item == toProcess[idx + 1]
              same == SameSlug(IF phase = "contributors" THEN contributors
                               ELSE projects, item)
              entry == Last(log')
          IN  /\ contributors' = contributors /\ projects' = projects
              /\ dependents' = dependents
              /\ Len(log') = Len(log) + 1
              /\ entry.outcome \in {"exists", "error"}
              /\ entry.outcome = "error" =>
                    /\ contributorIdMap' = contributorIdMap
                    /\ projectIdMap' = projectIdMap
              /\ entry.outcome = "exists" =>
                    /\ entry.target \in same /\ Cardinality(same) = 1
                    /\ IF phase = "contributors"
                       THEN /\ contributorIdMap' =
                                  (item.id :> entry.target) @@ contributorIdMap
                            /\ projectIdMap' = projectIdMap
                       ELSE /\ projectIdMap' =
                                  (item.id :> entry.target) @@ projectIdMap
                            /\ contributorIdMap' = contributorIdMap]_vars

\* Contributor w1 (name 'Al', a twitter link 't') met the stored document 1
\* with its slug: the document still has the name 'Zed' and the link 's'.
C22_Witness ==
    /\ variant = "migrate"
    /\ \E i \in DOMAIN log :
          /\ log[i].kind = "contributors" /\ log[i].src = W("1")
          /\ log[i].outcome = "exists" /\ log[i].target = 1
    /\ W("1") \in DOMAIN contributorIdMap /\ contributorIdMap[W("1")] = 1
    /\ 1 \in DOMAIN contributors
    /\ contributors[1] = StoredContributorPool[1]

(***************************************************************************)
(* Properties of a run with environment variables missing.                 *)
(***************************************************************************)
\* The step that is about to start has no token or no collection id.
StepUnconfigured == Running /\ pc = "fetch" /\ phase \notin configured

\* Nothing is listed and nothing is written, one warning about the step is
\* printed, and main goes on with the step that follows.
SkippedWithWarning ==
    /\ toProcess' = toProcess /\ idx' = idx /\ lookup' = lookup
    /\ contributors' = contributors /\ projects' = projects
    /\ dependents' = dependents
    /\ contributorIdMap' = contributorIdMap /\ projectIdMap' = projectIdMap
    /\ failures' = failures
    /\ Len(log') = Len(log) + 1
    /\ Last(log').kind = phase
    /\ Last(log').outcome = "unconfigured"
    /\ Last(log').warned = {phase}
    /\ phase' = NextPhase(variant, phase) /\ pc' = "fetch"

\* C23 (as amended): in refresh-from-webflow-api, refresh-from-webflow and
\* migrate-from-webflow a step whose token or collection id is missing
\* lists nothing, writes nothing, prints a warning and returns to main,
\* which goes on with the next step.
C23_UnconfiguredStepSkipped ==
    [][(StepUnconfigured /\ variant # "donors") => SkippedWithWarning]_vars

\* C23 witness: migrate-from-webflow without the contributors collection id
\* has skipped the contributors and then created a project.
C23_Witness ==
    /\ variant = "migrate"
    /\ "contributors" \notin configured
    /\ contributors # <<>>
    /\ \E i, j \in DOMAIN log :
          /\ i < j
          /\ log[i].kind = "contributors" /\ log[i].outcome = "unconfigured"
          /\ \A k \in DOMAIN log : log[k].kind = "contributors" => k = i
          /\ log[j].kind = "projects" /\ log[j].outcome = "created"

\* C23 (as stated): the same for every entity type of the scripts, the
\* matching donors of migrate-matching-donors included.
C23_Counterexample ==
    [][StepUnconfigured => SkippedWithWarning]_vars
(***************************************************************************)
(* Properties of the matching donors migrated again and again.             *)
(***************************************************************************)
Written(e) == e.kind = "donors" /\ e.outcome \in {"created", "updated"}

\* C27: migrateMatchingDonors upserts on webflowId. After any number of runs
\* no two matching-donor documents carry the same Webflow donor id, the
\* document written for a donor is still the document of that donor (so
\* donors of one name and different ids keep a document each), and a donor
\* that was created or updated before is not created again.
C27_UpsertByWebflowId ==
    LET store == dependents.donors
    IN  /\ \A j, k \in DOMAIN store :
              (/\ Has(store[j], "webflowId") /\ Has(store[k], "webflowId")
               /\ store[j].webflowId = store[k].webflowId) => j = k
        /\ \A i \in DOMAIN log :
              Written(log[i]) =>
                  /\ log[i].target \in DOMAIN store
                  /\ store[log[i].target].webflowId = log[i].src
        /\ \A i, j \in DOMAIN log :
              (/\ i < j /\ Written(log[i]) /\ Written(log[j])
               /\ log[i].src = log[j].src)
                  => /\ log[j].outcome = "updated"
                     /\ log[j].target = log[i].target

\* C27 witness: the second run has updated d1 and d2, two donors of one
\* name the first run created; the document entered by hand with that name
\* is a third one.
C27_Witness ==
    LET store == dependents.donors
    IN  /\ Runs = 2
        /\ Cardinality(DOMAIN store) = 3
        /\ \E i, j, k, l \in DOMAIN log :
              /\ i < j /\ j < k /\ k < l
              /\ log[i].src = D("1") /\ log[i].outcome = "created"
              /\ log[j].src = D("2") /\ log[j].outcome = "created"
              /\ log[k].outcome = "updated" /\ log[l].outcome = "updated"
              /\ {log[k].src, log[l].src} = {D("1"), D("2")}
              /\ store[log[i].target].name = store[log[j].target].name
              /\ log[i].target # log[j].target
(***************************************************************************)
(* Properties of the media file names.                                     *)
(***************************************************************************)
RegularFiles(dir) == {n \in DOMAIN dir : dir[n] = "file"}

ThirdStrategyDecides(e) ==
    /\ Reconciled(e)
    /\ LET item == SourceItem(srcContributors, e.src)
       IN  SlugHits(item, lookup) = {} /\ NameHits(item, lookup) = {}

\* C25 (as amended): when the first two strategies do not hit, the REST
\* refreshContributors matches a listed contributor whose slug, lower-cased
\* and trimmed, equals the lower-cased, trimmed original slug of the source
\* (not sanitized otherwise), and creates when there is none.
C25_OriginalSlugFolded ==
    InContributorsStep =>
        \A i \in DOMAIN log : ThirdStrategyDecides(log[i]) =>
            LET hits == OriginalSlugHits(
                            SourceItem(srcContributors, log[i].src), lookup)
            IN  IF hits # {} THEN log[i].matched \in hits
                ELSE log[i].matched = NoDoc

\* C25 witness: w4 (slug "A_b", sanitized "a-b", no name) has updated the
\* stored contributor with the slug "a_b".
C25_Witness ==
    /\ InContributorsStep
    /\ \E i \in DOMAIN log :
          /\ ThirdStrategyDecides(log[i])
          /\ log[i].src = W("4") /\ log[i].outcome = "updated"
          /\ log[i].matched = 4
          /\ lookup # <<>>
          /\ \E k \in DOMAIN lookup :
                lookup[k].id = 4 /\ lookup[k].slug = <<"a", "_", "b">>

\* C25 (as stated): the third strategy matches a target only when its slug
\* is the very string the source delivered.
C25_Counterexample ==
    InContributorsStep =>
        \A i \in DOMAIN log :
            (ThirdStrategyDecides(log[i]) /\ log[i].matched # NoDoc) =>
                log[i].matched \in ExactOriginalSlugHits(
                    SourceItem(srcContributors, log[i].src), lookup)
(***************************************************************************)
(* Properties of the end of listCollectionItems.                           *)
(***************************************************************************)
\* C26: with at most MaxRateLimited rate-limit responses, the call of
\* listCollectionItems on a finite collection ends: it returns unless a
\* request fails with another error, and the list it returns is as long as
\* the collection. When the collection holds a multiple of 100 items (zero
\* too) the last request is the one at the offset of the collection's size,
\* it is answered with an empty page, and it is the one request answered
\* beyond the full pages.
C26_FetchTerminates ==
    /\ <>(fPc \in {"returned", "thrown"})
    /\ [](fPc = "returned" => Len(fAllItems) = Len(fSource))
    /\ []((fPc = "returned" /\ Len(fSource) % limit = 0) =>
            /\ Last(fRequests) = Len(fSource)
            /\ Page(fSource, Last(fRequests), limit) = <<>>
            /\ Len(fRequests) - fRateLimited = Len(fSource) \div limit + 1)

\* C26 witness: a collection of 100 items has been returned after the full
\* page, rate-limit responses and the empty page at offset 100.
C26_Witness ==
    /\ fPc = "returned"
    /\ Len(fSource) = limit
    /\ fRateLimited = MaxRateLimited
    /\ Last(fRequests) = limit
    /\ Len(fAllItems) = limit
(***************************************************************************)
(* Properties of the targets of one REST contributors step.                *)
(***************************************************************************)
WrittenContributor(e) ==
    e.kind = "contributors" /\ e.outcome \in {"created", "updated"}

SanitizedSlugOf(id) == Sanitize(RawSlug(SourceItem(srcContributors, id)))

\* C28: in a run of the REST variant two source contributors with different
\* sanitized slugs are not written to the same contributor document, and
\* contributorIdMap gives them different ids.
C28_Counterexample ==
    variant = "api" =>
        /\ \A i, j \in DOMAIN log :
              (/\ WrittenContributor(log[i]) /\ WrittenContributor(log[j])
               /\ SanitizedSlugOf(log[i].src) # SanitizedSlugOf(log[j].src))
                  => log[i].target # log[j].target
        /\ \A a, b \in DOMAIN contributorIdMap :
              (/\ a \in {c.id : c \in Range(srcContributors)}
               /\ b \in {c.id : c \in Range(srcContributors)}
               /\ SanitizedSlugOf(a) # SanitizedSlugOf(b))
                  => contributorIdMap[a] # contributorIdMap[b]
(***************************************************************************)
(* Properties of the relation lists of a project.                          *)
(***************************************************************************)
NoRepeats(ids) == \A i, j \in DOMAIN ids : ids[i] = ids[j] => i = j

\* C29: the list sent for bitcoinContributors, litecoinContributors or
\* advocates of a project holds every contributor id once at most.
C29_Counterexample ==
    \A i \in DOMAIN log :
        (log[i].kind = "projects" /\ log[i].outcome \in {"created", "updated"}) =>
            \A f \in RelationFields :
                f \in DOMAIN log[i].data => NoRepeats(log[i].data[f])
(***************************************************************************)
(* Properties of the posts and their links.                                *)
(***************************************************************************)
LinkFields == {"xPostLink", "youtubeLink", "redditLink"}

LinkValues(d) == {Field(d, f) : f \in LinkFields} \ {<<>>}

\* C30: after refreshPosts no two posts hold the same link value in
\* xPostLink, youtubeLink or redditLink, and a source post that was found
\* with its link already stored was left as it is.
C30_Counterexample ==
    variant = "local" =>
        /\ \A j, k \in DOMAIN dependents.posts :
              LinkValues(dependents.posts[j]) \cap LinkValues(dependents.posts[k])
                  # {} => j = k
        /\ \A i \in DOMAIN log :
              (log[i].kind = "posts" /\ log[i].outcome = "exists") =>
                  AnyLink(PostLinks(SourceItem(SourcePosts, log[i].src).fieldData))
                      \in LinkValues(dependents.posts[log[i].matched])
====
